---- MODULE Spec2Model ----
(***************************************************************************)
(* Ready-order payment handler (POST) of the laundry booking application:  *)
(* the guarded sequence order lookup -> ownership -> status -> payment     *)
(* method -> customer profile -> payment initiation, with the Order Store, *)
(* the Identity Provider and the Payment Initiator as collaborators whose  *)
(* answers are inputs of the handler.  Each invocation is a process whose  *)
(* steps are the code between two awaits.                                  *)
(*                                                                         *)
(* The registration page and the owner dashboard are React components:     *)
(* the state of each is one record of its useState cells, and each event   *)
(* handler is an action per stretch of code between two awaits.  Each has  *)
(* its own specifications, under which the handler is not running.         *)
(***************************************************************************)
EXTENDS Naturals, Sequences, FiniteSets, TLC

VARIABLES orders, appUrl, pc, request, orderResponse, customerResponse,
          paymentData, paymentResult, response, calls, initiated,
          register, dashboard

\* the state of the payment handler and of its collaborators
handler == <<orders, appUrl, pc, request, orderResponse, customerResponse,
             paymentData, paymentResult, response, calls, initiated>>

\* the state of the two pages: the registration page and the owner dashboard
pages == <<register, dashboard>>

vars == <<handler, pages>>

-----------------------------------------------------------------------------
(* Bounds of the model *)

\* order amounts are the multiples 1..MaxAmountSteps of 500000 kobo
MaxAmountSteps == 1

\* the handler invocations, numbered as they arrive; they may overlap
Invocations == {1, 2}

-----------------------------------------------------------------------------
(* JavaScript values *)

\* the value of a missing property or variable
Undefined == "<undefined>"
\* an optional object: None is null/undefined, Some(x) is the object x
None == <<>>
Some(x) == <<x>>
Get(o) == o[1]

\* !v is false: v is a non-empty string
Truthy(v) == v \notin {Undefined, ""}
\* a || b on strings
OrElse(a, b) == IF Truthy(a) THEN a ELSE b
\* `${v}` of a template literal
Template(v) == IF v = Undefined THEN "undefined" ELSE v

-----------------------------------------------------------------------------
(* Data *)

OrderStatus == {"PENDING", "PICKED_UP", "CONFIRMED", "IN_PROGRESS", "READY",
                "DELIVERED", "CANCELLED"}
READY == "READY"
PaymentMethod == {"PAY_ONLINE", "PAY_ON_PICKUP", "PAY_BY_TRANSFER"}
PAY_ON_PICKUP == "PAY_ON_PICKUP"

CustomerIds == {"C1", "C2"}
\* the orders of the Order Store, and an id it does not hold
OrderIds == {"O1"}
UnknownOrderId == "O2"
Amounts == {k * 500000 : k \in 1..MaxAmountSteps}

Orders == [customerId : CustomerIds, status : OrderStatus,
           paymentMethod : PaymentMethod, finalAmount : Amounts]

\* the configured NEXT_PUBLIC_APP_URL, possibly unset
AppUrls == {"https://app.example", Undefined}

\* request bodies: request.json() rejects ("invalid"), yields null, or yields
\* an object whose orderId and customerId may be missing or empty
Bodies == [json : {"invalid", "null"}, orderId : {Undefined}, customerId : {Undefined}]
          \cup [json : {"object"},
                orderId : {Undefined, ""} \cup OrderIds \cup {UnknownOrderId},
                customerId : {Undefined, ""} \cup CustomerIds]

\* error texts a collaborator may report; the last is also a text of the handler
StoreErrors == {Undefined, "", "Database unavailable", "Customer not found"}
PaymentErrors == {Undefined, "", "Gateway declined"}

\* getOrderById(id) -> {success, data: {order}, error?}, or a rejected promise
OrderResponses(id) ==
    [throws : {TRUE}, success : {FALSE}, data : {None}, error : {Undefined}]
    \cup [throws : {FALSE}, success : {FALSE}, data : {None}, error : StoreErrors]
    \cup [throws : {FALSE}, success : {TRUE}, data : {None, Some([order |-> None])},
          error : {Undefined}]
    \cup IF id \in OrderIds
         THEN [throws : {FALSE}, success : BOOLEAN,
               data : {Some([order |-> Some(orders[id])])}, error : {Undefined}]
         ELSE {}

Phones == [type : {"string"}, value : {"08012345678", ""}]
          \cup [type : {"object"}, value : {"08012345678", Undefined}]
          \cup [type : {"undefined", "null"}, value : {Undefined}]

Profiles == [email : {"a@b.com"}, firstName : {"Ada"}, lastName : {"Lovelace"},
             phone : Phones]

\* getUserProfile(id) -> {success, data: profile, error?}, or a rejected promise
CustomerResponses ==
    [throws : {TRUE}, success : {FALSE}, data : {None}]
    \cup [throws : {FALSE}, success : BOOLEAN, data : {None}]
    \cup [throws : {FALSE}, success : {TRUE}, data : {Some(c) : c \in Profiles}]

\* the reference the Payment Initiator gives its n-th initiation
Reference(n) == "REF" \o ToString(n)

\* initializePayment(data) -> {success, data: {authorizationUrl, reference}, error?}
PaymentResults(n) ==
    [throws : {TRUE}, success : {FALSE}, data : {None}, error : {Undefined}]
    \cup [throws : {FALSE}, success : BOOLEAN, data : {None}, error : PaymentErrors]
    \cup [throws : {FALSE}, success : {TRUE},
          data : {Some([authorizationUrl |-> u, reference |-> Reference(n)]) :
                    u \in {Undefined, "", "https://pay.example/x"}},
          error : {Undefined}]
    \cup [throws : {FALSE}, success : BOOLEAN,
          data : {Some([authorizationUrl |-> "https://pay.example/x",
                        reference |-> Undefined])},
          error : {Undefined}]

-----------------------------------------------------------------------------
(* NextResponse.json *)

\* the failure response without its { status } option: NextResponse.json
\* then answers 200
Fail_DefaultStatus(status, error) ==
    [status |-> 200, success |-> FALSE, error |-> error, data |-> None]

Fail(status, error) ==
    [status |-> status, success |-> FALSE, error |-> error, data |-> None]
Success(data) ==
    [status |-> 200, success |-> TRUE, error |-> Undefined, data |-> Some(data)]

\* the catch block reporting the message of the error it caught
InternalError_ErrorMessage ==
    Fail(500, "Cannot read properties of undefined (reading 'customerId')")

\* the catch block
InternalError == Fail(500, "Internal server error")

-----------------------------------------------------------------------------
(* The guards of POST, in the order of the code *)

MissingIdentifiers_Both(orderId, customerId) ==
    ~Truthy(orderId) /\ ~Truthy(customerId)

\* !orderId || !customerId
MissingIdentifiers(orderId, customerId) ==
    ~Truthy(orderId) \/ ~Truthy(customerId)

\* !orderResponse.success || !orderResponse.data
OrderLookupFailed(r) == ~r.success \/ r.data = None

OrderNotFound_FixedText(r) == Fail(404, "Order not found")

OrderNotFound(r) == Fail(404, OrElse(r.error, "Order not found"))

NotOwner_Unchecked(order, customerId) == FALSE

\* order.customerId !== customerId
NotOwner(order, customerId) == order.customerId # customerId

\* a status guard that stops cancelled orders only
NotReady_CancelledOnly(order) == order.status = "CANCELLED"

\* order.status !== OrderStatus.READY
NotReady(order) == order.status # READY

NotPayOnPickup_OnlineOnly(order) == order.paymentMethod = "PAY_ONLINE"

\* order.paymentMethod !== PaymentMethod.PAY_ON_PICKUP
NotPayOnPickup(order) == order.paymentMethod # PAY_ON_PICKUP

CustomerLookupFailed_SuccessOnly(r) == ~r.success

\* !customerResponse.success || !customerResponse.data
CustomerLookupFailed(r) == ~r.success \/ r.data = None

PaymentInitialized_AnyData(r) == r.success /\ r.data # None

\* paymentResult.success && paymentResult.data?.authorizationUrl
PaymentInitialized(r) ==
    r.success /\ r.data # None /\ Truthy(Get(r.data).authorizationUrl)

\* phone?.number || '': the bare string form is not recognised
PhoneNumber_StructuredOnly(phone) ==
    IF phone.type = "object" THEN OrElse(phone.value, "") ELSE ""

\* typeof phone === 'string' ? phone : phone?.number || ''
PhoneNumber(phone) ==
    IF phone.type = "string" THEN phone.value
    ELSE IF phone.type = "object" THEN OrElse(phone.value, "")
    ELSE ""

\* the payment data with the order id numbered by the initiations made so far
BuildPaymentData_Numbered(orderId, customerId, order, customer, url) ==
    [email |-> customer.email,
     amount |-> order.finalAmount,
     currency |-> "NGN",
     metadata |-> [orderId |-> orderId \o ToString(Len(initiated)),
                   customerId |-> customerId,
                   customerName |-> customer.firstName \o " " \o customer.lastName,
                   phoneNumber |-> PhoneNumber(customer.phone),
                   paymentType |-> "pay_on_pickup"],
     callback_url |-> Template(url) \o "/payment/callback"]

\* the payment data with the two identifiers of the metadata exchanged
BuildPaymentData_SwappedIds(orderId, customerId, order, customer, url) ==
    [email |-> customer.email,
     amount |-> order.finalAmount,
     currency |-> "NGN",
     metadata |-> [orderId |-> customerId,
                   customerId |-> orderId,
                   customerName |-> customer.firstName \o " " \o customer.lastName,
                   phoneNumber |-> PhoneNumber(customer.phone),
                   paymentType |-> "pay_on_pickup"],
     callback_url |-> Template(url) \o "/payment/callback"]

\* the payment data with the amount converted from kobo to naira
BuildPaymentData_AmountInNaira(orderId, customerId, order, customer, url) ==
    [email |-> customer.email,
     amount |-> order.finalAmount \div 100,
     currency |-> "NGN",
     metadata |-> [orderId |-> orderId,
                   customerId |-> customerId,
                   customerName |-> customer.firstName \o " " \o customer.lastName,
                   phoneNumber |-> PhoneNumber(customer.phone),
                   paymentType |-> "pay_on_pickup"],
     callback_url |-> Template(url) \o "/payment/callback"]

BuildPaymentData(orderId, customerId, order, customer, url) ==
    [email |-> customer.email,
     amount |-> order.finalAmount,
     currency |-> "NGN",
     metadata |-> [orderId |-> orderId,
                   customerId |-> customerId,
                   customerName |-> customer.firstName \o " " \o customer.lastName,
                   phoneNumber |-> PhoneNumber(customer.phone),
                   paymentType |-> "pay_on_pickup"],
     callback_url |-> Template(url) \o "/payment/callback"]

\* lines 9-18: the outcome of parsing and of the identifier guard; None: go on
\* (destructuring null throws, as does a body that is not JSON)
ParseOutcome(body) ==
    IF body.json # "object" THEN Some(InternalError)
    ELSE IF MissingIdentifiers(body.orderId, body.customerId)
         THEN Some(Fail(400, "Order ID and Customer ID are required"))
    ELSE None

\* the order guards with the status and the payment method checked before
\* the ownership
OrderGuards_StateFirst(order, customerId) ==
    IF NotReady(order)
       THEN Some(Fail(400, "Order is not ready for pickup"))
    ELSE IF NotPayOnPickup(order)
       THEN Some(Fail(400, "Order is not set for pay on pickup"))
    ELSE IF NotOwner(order, customerId)
       THEN Some(Fail(403, "Unauthorized access to order"))
    ELSE None

\* the order guards with the payment method checked before the status
OrderGuards_MethodFirst(order, customerId) ==
    IF NotOwner(order, customerId)
       THEN Some(Fail(403, "Unauthorized access to order"))
    ELSE IF NotPayOnPickup(order)
       THEN Some(Fail(400, "Order is not set for pay on pickup"))
    ELSE IF NotReady(order)
       THEN Some(Fail(400, "Order is not ready for pickup"))
    ELSE None

\* lines 36-57: ownership, status, payment method; None: go on
OrderGuards(order, customerId) ==
    IF NotOwner(order, customerId)
       THEN Some(Fail(403, "Unauthorized access to order"))
    ELSE IF NotReady(order)
       THEN Some(Fail(400, "Order is not ready for pickup"))
    ELSE IF NotPayOnPickup(order)
       THEN Some(Fail(400, "Order is not set for pay on pickup"))
    ELSE None

\* lines 22-57: the outcome of the order lookup and the order guards; None: go on
\* (order.customerId of an order missing from the data throws)
OrderOutcome(customerId, r) ==
    IF r.throws THEN Some(InternalError)
    ELSE IF OrderLookupFailed(r) THEN Some(OrderNotFound(r))
    ELSE IF r.data = None \/ Get(r.data).order = None THEN Some(InternalError)
    ELSE OrderGuards(Get(Get(r.data).order), customerId)

\* lines 60-66; None: go on (customer.email of a missing profile throws)
CustomerOutcome(r) ==
    IF r.throws THEN Some(InternalError)
    ELSE IF CustomerLookupFailed(r) THEN Some(Fail(404, "Customer not found"))
    ELSE IF r.data = None THEN Some(InternalError)
    ELSE None

PaymentOutcome_UrlAsReference(r) ==
    IF r.throws THEN InternalError
    ELSE IF PaymentInitialized(r)
         THEN Success([authorizationUrl |-> Get(r.data).authorizationUrl,
                       reference |-> Get(r.data).authorizationUrl])
    ELSE Fail(500, OrElse(r.error, "Failed to initialize payment"))

\* lines 86-101
PaymentOutcome(r) ==
    IF r.throws THEN InternalError
    ELSE IF PaymentInitialized(r)
         THEN Success([authorizationUrl |-> Get(r.data).authorizationUrl,
                       reference |-> Get(r.data).reference])
    ELSE Fail(500, OrElse(r.error, "Failed to initialize payment"))

\* a second initiation for an order already in the log is dropped
Initiate_Deduplicated(log, p, data) ==
    IF \E n \in 1..Len(log) : log[n].data.metadata.orderId = data.metadata.orderId
    THEN log
    ELSE Append(log, [invocation |-> p, data |-> data])

Initiate_Twice(log, p, data) ==
    Append(Append(log, [invocation |-> p, data |-> data]),
           [invocation |-> p, data |-> data])

\* line 86: the Payment Initiator receives the request of invocation p
Initiate(log, p, data) == Append(log, [invocation |-> p, data |-> data])

-----------------------------------------------------------------------------
(* State machine *)

Init ==
    /\ orders \in [OrderIds -> Orders]
    /\ appUrl \in AppUrls
    /\ pc = [p \in Invocations |-> "idle"]
    /\ request = [p \in Invocations |-> None]
    /\ orderResponse = [p \in Invocations |-> None]
    /\ customerResponse = [p \in Invocations |-> None]
    /\ paymentData = [p \in Invocations |-> None]
    /\ paymentResult = [p \in Invocations |-> None]
    /\ response = [p \in Invocations |-> None]
    /\ calls = [p \in Invocations |-> <<>>]
    /\ initiated = <<>>
    /\ register = None
    /\ dashboard = None

\* POST is entered and awaits the body of the request (lines 7-9).
\* Invocations are numbered as they arrive.
Enter(p) ==
    /\ pc[p] = "idle"
    /\ \A q \in Invocations : q < p => pc[q] # "idle"
    /\ pc' = [pc EXCEPT ![p] = "awaitBody"]
    /\ UNCHANGED pages
    /\ UNCHANGED <<orders, appUrl, request, orderResponse, customerResponse,
                   paymentData, paymentResult, response, calls, initiated>>

\* request.json() settles: the body is parsed, the identifiers are checked
\* and getOrderById is called (lines 9-22)
Receive(p) ==
    /\ pc[p] = "awaitBody"
    /\ \E body \in Bodies :
       /\ request' = [request EXCEPT ![p] = Some(body)]
       /\ LET out == ParseOutcome(body) IN
          IF out # None
          THEN /\ response' = [response EXCEPT ![p] = out]
               /\ pc' = [pc EXCEPT ![p] = "done"]
               /\ UNCHANGED calls
          ELSE /\ calls' = [calls EXCEPT ![p] = Append(@, "getOrderById")]
               /\ pc' = [pc EXCEPT ![p] = "awaitOrder"]
               /\ UNCHANGED response
    /\ UNCHANGED pages
    /\ UNCHANGED <<orders, appUrl, orderResponse, customerResponse, paymentData,
                   paymentResult, initiated>>

\* getOrderById settles: the order guards run and getUserProfile is called
\* (lines 22-60)
OrderReturns(p) ==
    /\ pc[p] = "awaitOrder"
    /\ \E r \in OrderResponses(Get(request[p]).orderId) :
       /\ orderResponse' = [orderResponse EXCEPT ![p] = Some(r)]
       /\ LET out == OrderOutcome(Get(request[p]).customerId, r) IN
          IF out # None
          THEN /\ response' = [response EXCEPT ![p] = out]
               /\ pc' = [pc EXCEPT ![p] = "done"]
               /\ UNCHANGED calls
          ELSE /\ calls' = [calls EXCEPT ![p] = Append(@, "getUserProfile")]
               /\ pc' = [pc EXCEPT ![p] = "awaitProfile"]
               /\ UNCHANGED response
    /\ UNCHANGED pages
    /\ UNCHANGED <<orders, appUrl, request, customerResponse, paymentData,
                   paymentResult, initiated>>

\* getUserProfile settles: the payment data are built and initializePayment is
\* called (lines 60-86)
ProfileReturns(p) ==
    /\ pc[p] = "awaitProfile"
    /\ \E r \in CustomerResponses :
       /\ customerResponse' = [customerResponse EXCEPT ![p] = Some(r)]
       /\ LET out == CustomerOutcome(r) IN
          IF out # None
          THEN /\ response' = [response EXCEPT ![p] = out]
               /\ pc' = [pc EXCEPT ![p] = "done"]
               /\ UNCHANGED <<calls, paymentData, initiated>>
          ELSE LET req == Get(request[p])
                   order == Get(Get(Get(orderResponse[p]).data).order)
                   data == BuildPaymentData(req.orderId, req.customerId, order,
                                            Get(r.data), appUrl)
               IN /\ paymentData' = [paymentData EXCEPT ![p] = Some(data)]
                  /\ initiated' = Initiate(initiated, p, data)
                  /\ calls' = [calls EXCEPT ![p] = Append(@, "initializePayment")]
                  /\ pc' = [pc EXCEPT ![p] = "awaitPayment"]
                  /\ UNCHANGED response
    /\ UNCHANGED pages
    /\ UNCHANGED <<orders, appUrl, request, orderResponse, paymentResult>>

\* the number of the initiation that invocation p made
InitiationOf(p) == CHOOSE n \in 1..Len(initiated) : initiated[n].invocation = p

\* as PaymentReturns, but a successful initiation also marks the order
\* DELIVERED in the Order Store
PaymentReturns_MarksDelivered(p) ==
    /\ pc[p] = "awaitPayment"
    /\ \E r \in PaymentResults(InitiationOf(p)) :
       /\ paymentResult' = [paymentResult EXCEPT ![p] = Some(r)]
       /\ response' = [response EXCEPT ![p] = Some(PaymentOutcome(r))]
       /\ orders' = IF PaymentOutcome(r).success
                    THEN [orders EXCEPT ![Get(request[p]).orderId].status = "DELIVERED"]
                    ELSE orders
    /\ pc' = [pc EXCEPT ![p] = "done"]
    /\ UNCHANGED pages
    /\ UNCHANGED <<appUrl, request, orderResponse, customerResponse,
                   paymentData, calls, initiated>>

\* initializePayment settles: the result is returned (lines 86-101)
PaymentReturns(p) ==
    /\ pc[p] = "awaitPayment"
    /\ \E r \in PaymentResults(InitiationOf(p)) :
       /\ paymentResult' = [paymentResult EXCEPT ![p] = Some(r)]
       /\ response' = [response EXCEPT ![p] = Some(PaymentOutcome(r))]
    /\ pc' = [pc EXCEPT ![p] = "done"]
    /\ UNCHANGED pages
    /\ UNCHANGED <<orders, appUrl, request, orderResponse, customerResponse,
                   paymentData, calls, initiated>>

Next ==
    \E p \in Invocations :
        \/ Enter(p)
        \/ Receive(p)
        \/ OrderReturns(p)
        \/ ProfileReturns(p)
        \/ PaymentReturns(p)

Spec == Init /\ [][Next]_vars

-----------------------------------------------------------------------------
(* What an invocation has seen and done *)

Req(p) == Get(request[p])
Done(p) == pc[p] = "done"
Res(p) == Get(response[p])

\* getOrderById answered p with a successful lookup that holds an order
OrderFound(p) ==
    /\ orderResponse[p] # None
    /\ ~Get(orderResponse[p]).throws
    /\ Get(orderResponse[p]).success
    /\ Get(orderResponse[p]).data # None
    /\ Get(Get(orderResponse[p]).data).order # None
FoundOrder(p) == Get(Get(Get(orderResponse[p]).data).order)

\* the payment initiations invocation p made
InitiationsBy(p) == {n \in 1..Len(initiated) : initiated[n].invocation = p}

-----------------------------------------------------------------------------
(* C1: whenever the order lookup of an invocation found an order whose      *)
(* customerId differs from the request's customerId, the invocation has     *)
(* ended with 403 'Unauthorized access to order', whatever the order's      *)
(* status, payment method and amount, and the response carries no data.     *)
C1_Unauthorized ==
    \A p \in Invocations :
        (OrderFound(p) /\ FoundOrder(p).customerId # Req(p).customerId)
        => /\ Done(p)
           /\ Res(p).status = 403
           /\ ~Res(p).success
           /\ Res(p).error = "Unauthorized access to order"
           /\ Res(p).data = None
           /\ calls[p] = <<"getOrderById">>

\* a READY pay-on-pickup order of another customer was refused
C1_Witness ==
    \E p \in Invocations :
        /\ OrderFound(p)
        /\ FoundOrder(p).customerId # Req(p).customerId
        /\ FoundOrder(p).status = READY
        /\ FoundOrder(p).paymentMethod = PAY_ON_PICKUP
        /\ FoundOrder(p).finalAmount = 500000
        /\ Done(p) /\ Res(p).status = 403

\* C2 as stated, for every request: whenever orderId or customerId of a
\* request is missing or empty, the invocation has ended with 400.  A body
\* that is not valid JSON or is null has neither identifier, and line 9
\* throws on it, so that it is answered 500 by the catch block
C2_MalformedRequest_AnyBody ==
    \A p \in Invocations :
        (/\ request[p] # None
         /\ (Req(p).orderId \in {Undefined, ""} \/ Req(p).customerId \in {Undefined, ""}))
        => /\ Done(p)
           /\ Res(p) = [status |-> 400, success |-> FALSE, data |-> None,
                        error |-> "Order ID and Customer ID are required"]
           /\ calls[p] = <<>>
           /\ InitiationsBy(p) = {}

(* C2: whenever the body of a request is an object whose orderId or         *)
(* customerId is missing or empty, the invocation has ended with 400        *)
(* 'Order ID and Customer ID are required' without calling any              *)
(* collaborator, whatever the Order Store holds.                            *)
C2_MalformedRequest ==
    \A p \in Invocations :
        (/\ request[p] # None
         /\ Req(p).json = "object"
         /\ (Req(p).orderId \in {Undefined, ""} \/ Req(p).customerId \in {Undefined, ""}))
        => /\ Done(p)
           /\ Res(p) = [status |-> 400, success |-> FALSE, data |-> None,
                        error |-> "Order ID and Customer ID are required"]
           /\ calls[p] = <<>>
           /\ InitiationsBy(p) = {}

\* a request naming an order of the store but no customer was rejected
C2_Witness ==
    \E p \in Invocations :
        /\ request[p] # None
        /\ Req(p).json = "object"
        /\ Req(p).orderId \in OrderIds
        /\ Req(p).customerId = Undefined
        /\ Done(p) /\ Res(p).status = 400

(* C3: whenever both identifiers are present and getOrderById answers with  *)
(* a failure or with no data (as for an orderId the store does not hold),   *)
(* the invocation has ended with 404, carrying the store's error message    *)
(* when it is a non-empty text and 'Order not found' otherwise.             *)
C3_OrderNotFound ==
    \A p \in Invocations :
        (/\ orderResponse[p] # None
         /\ ~Get(orderResponse[p]).throws
         /\ (~Get(orderResponse[p]).success \/ Get(orderResponse[p]).data = None))
        => /\ Truthy(Req(p).orderId) /\ Truthy(Req(p).customerId)
           /\ Done(p)
           /\ Res(p).status = 404
           /\ ~Res(p).success
           /\ Res(p).data = None
           /\ Res(p).error =
                 IF Get(orderResponse[p]).error \in {Undefined, ""}
                 THEN "Order not found"
                 ELSE Get(orderResponse[p]).error

\* an unknown orderId was answered 404 with the store's own message
C3_Witness ==
    \E p \in Invocations :
        /\ orderResponse[p] # None
        /\ Req(p).orderId = UnknownOrderId
        /\ ~Get(orderResponse[p]).success
        /\ Get(orderResponse[p]).error = "Database unavailable"
        /\ Done(p)
        /\ Res(p).status = 404 /\ Res(p).error = "Database unavailable"

(* C4 as stated: whenever the order lookup found an order whose status is   *)
(* not READY, the invocation has ended with 400 'Order is not ready for    *)
(* pickup'.                                                                 *)
C4_NotReady_AnyCaller ==
    \A p \in Invocations :
        (OrderFound(p) /\ FoundOrder(p).status # READY)
        => /\ Done(p)
           /\ Res(p).status = 400
           /\ Res(p).error = "Order is not ready for pickup"

(* C4, amended: whenever the order lookup found an order of the requesting  *)
(* customer whose status is not READY, the invocation has ended with 400    *)
(* 'Order is not ready for pickup', whatever the order's payment method.    *)
C4_NotReady ==
    \A p \in Invocations :
        (/\ OrderFound(p)
         /\ FoundOrder(p).customerId = Req(p).customerId
         /\ FoundOrder(p).status # READY)
        => /\ Done(p)
           /\ Res(p) = [status |-> 400, success |-> FALSE, data |-> None,
                        error |-> "Order is not ready for pickup"]
           /\ calls[p] = <<"getOrderById">>

\* the caller's own PENDING order, not set for pay on pickup, was answered
\* not-ready
C4_Witness ==
    \E p \in Invocations :
        /\ OrderFound(p)
        /\ FoundOrder(p).customerId = Req(p).customerId
        /\ FoundOrder(p).status = "PENDING"
        /\ FoundOrder(p).paymentMethod = "PAY_ONLINE"
        /\ Done(p) /\ Res(p).error = "Order is not ready for pickup"

(* C5 as stated: whenever the order lookup found a READY order whose        *)
(* paymentMethod is not PAY_ON_PICKUP, the invocation has ended with 400    *)
(* 'Order is not set for pay on pickup' and has initiated no payment.       *)
C5_WrongMethod_AnyCaller ==
    \A p \in Invocations :
        (/\ OrderFound(p)
         /\ FoundOrder(p).status = READY
         /\ FoundOrder(p).paymentMethod # PAY_ON_PICKUP)
        => /\ Done(p)
           /\ Res(p).status = 400
           /\ Res(p).error = "Order is not set for pay on pickup"
           /\ InitiationsBy(p) = {}

(* C5, amended: whenever the order lookup found a READY order of the        *)
(* requesting customer whose paymentMethod is not PAY_ON_PICKUP, the        *)
(* invocation has ended with 400 'Order is not set for pay on pickup' and   *)
(* has initiated no payment.                                                *)
C5_WrongMethod ==
    \A p \in Invocations :
        (/\ OrderFound(p)
         /\ FoundOrder(p).customerId = Req(p).customerId
         /\ FoundOrder(p).status = READY
         /\ FoundOrder(p).paymentMethod # PAY_ON_PICKUP)
        => /\ Done(p)
           /\ Res(p) = [status |-> 400, success |-> FALSE, data |-> None,
                        error |-> "Order is not set for pay on pickup"]
           /\ calls[p] = <<"getOrderById">>
           /\ InitiationsBy(p) = {}

\* the caller's own READY order to be paid by transfer was refused
C5_Witness ==
    \E p \in Invocations :
        /\ OrderFound(p)
        /\ FoundOrder(p).customerId = Req(p).customerId
        /\ FoundOrder(p).status = READY
        /\ FoundOrder(p).paymentMethod = "PAY_BY_TRANSFER"
        /\ Done(p) /\ Res(p).error = "Order is not set for pay on pickup"

\* the order lookup of p found a READY pay-on-pickup order of the caller
Eligible(p) ==
    /\ OrderFound(p)
    /\ FoundOrder(p).customerId = Req(p).customerId
    /\ FoundOrder(p).status = READY
    /\ FoundOrder(p).paymentMethod = PAY_ON_PICKUP

(* C6: whenever the order is READY, PAY_ON_PICKUP and owned by the caller   *)
(* and getUserProfile answers with a failure or without a profile, the      *)
(* invocation has ended with 404 'Customer not found' and the Payment       *)
(* Initiator was not called.                                                *)
C6_CustomerNotFound ==
    \A p \in Invocations :
        (/\ Eligible(p)
         /\ customerResponse[p] # None
         /\ ~Get(customerResponse[p]).throws
         /\ (~Get(customerResponse[p]).success \/ Get(customerResponse[p]).data = None))
        => /\ Done(p)
           /\ Res(p) = [status |-> 404, success |-> FALSE, data |-> None,
                        error |-> "Customer not found"]
           /\ calls[p] = <<"getOrderById", "getUserProfile">>
           /\ InitiationsBy(p) = {}

\* getUserProfile reported success without a profile and the request was refused
C6_Witness ==
    \E p \in Invocations :
        /\ Eligible(p)
        /\ customerResponse[p] # None
        /\ ~Get(customerResponse[p]).throws
        /\ Get(customerResponse[p]).success
        /\ Get(customerResponse[p]).data = None
        /\ Done(p) /\ Res(p).status = 404

\* getUserProfile answered p with a profile
Resolved(p) ==
    /\ customerResponse[p] # None
    /\ ~Get(customerResponse[p]).throws
    /\ Get(customerResponse[p]).success
    /\ Get(customerResponse[p]).data # None

(* C7: whenever the order is READY and PAY_ON_PICKUP, the customer is       *)
(* resolved and initializePayment answers success with a checkout URL, the  *)
(* invocation has ended with a success result whose data are exactly the    *)
(* authorizationUrl and the reference of that answer.                       *)
C7_PaymentSuccess ==
    \A p \in Invocations :
        (/\ Eligible(p) /\ Resolved(p)
         /\ paymentResult[p] # None
         /\ ~Get(paymentResult[p]).throws
         /\ Get(paymentResult[p]).success
         /\ Get(paymentResult[p]).data # None
         /\ Get(Get(paymentResult[p]).data).authorizationUrl \notin {Undefined, ""})
        => /\ Done(p)
           /\ Res(p).success
           /\ Res(p).status = 200
           /\ Res(p).data =
                Some([authorizationUrl |-> Get(Get(paymentResult[p]).data).authorizationUrl,
                      reference |-> Get(Get(paymentResult[p]).data).reference])

\* the second initiation succeeded and its URL and reference were returned
C7_Witness ==
    \E p \in Invocations :
        /\ Done(p) /\ Res(p).success
        /\ paymentResult[p] # None
        /\ Get(paymentResult[p]).success
        /\ Res(p).data = Some([authorizationUrl |-> "https://pay.example/x",
                               reference |-> "REF2"])

(* C8: whenever initializePayment answers success without a checkout URL,   *)
(* or failure, the invocation has ended with 500 and not success, carrying  *)
(* the initiator's error message when it is a non-empty text and 'Failed to *)
(* initialize payment' otherwise.                                           *)
C8_PaymentFailure ==
    \A p \in Invocations :
        (/\ paymentResult[p] # None
         /\ ~Get(paymentResult[p]).throws
         /\ \/ ~Get(paymentResult[p]).success
            \/ Get(paymentResult[p]).data = None
            \/ Get(Get(paymentResult[p]).data).authorizationUrl \in {Undefined, ""})
        => /\ Done(p)
           /\ Res(p).status = 500
           /\ ~Res(p).success
           /\ Res(p).data = None
           /\ Res(p).error =
                 IF Get(paymentResult[p]).error \in {Undefined, ""}
                 THEN "Failed to initialize payment"
                 ELSE Get(paymentResult[p]).error

\* a success answer without a checkout URL was reported as a payment failure
C8_Witness ==
    \E p \in Invocations :
        /\ paymentResult[p] # None
        /\ Get(paymentResult[p]).success
        /\ Get(paymentResult[p]).data # None
        /\ Get(Get(paymentResult[p]).data).authorizationUrl = Undefined
        /\ Done(p)
        /\ Res(p).status = 500 /\ Res(p).error = "Failed to initialize payment"

\* The guard whose failure ends invocation p, from what p received: 1
\* identifiers, 2 order lookup, 3 ownership, 4 status, 5 payment method, 6
\* customer profile, 7 payment initiation; 0 when no guard has failed (p is
\* not yet there, p succeeded, or p met a fault)
FailedGuard(p) ==
    IF request[p] = None \/ Req(p).json # "object" THEN 0
    ELSE IF Req(p).orderId \in {Undefined, ""} \/ Req(p).customerId \in {Undefined, ""}
         THEN 1
    ELSE IF orderResponse[p] = None \/ Get(orderResponse[p]).throws THEN 0
    ELSE IF ~Get(orderResponse[p]).success \/ Get(orderResponse[p]).data = None THEN 2
    ELSE IF Get(Get(orderResponse[p]).data).order = None THEN 0
    ELSE IF FoundOrder(p).customerId # Req(p).customerId THEN 3
    ELSE IF FoundOrder(p).status # READY THEN 4
    ELSE IF FoundOrder(p).paymentMethod # PAY_ON_PICKUP THEN 5
    ELSE IF customerResponse[p] = None \/ Get(customerResponse[p]).throws THEN 0
    ELSE IF ~Get(customerResponse[p]).success \/ Get(customerResponse[p]).data = None
         THEN 6
    ELSE IF paymentResult[p] = None \/ Get(paymentResult[p]).throws THEN 0
    ELSE IF \/ ~Get(paymentResult[p]).success
            \/ Get(paymentResult[p]).data = None
            \/ Get(Get(paymentResult[p]).data).authorizationUrl \in {Undefined, ""}
         THEN 7
    ELSE 0

\* the status code of each guard's failure and, where the text is the
\* handler's own, its message
GuardStatus(k) ==
    CASE k = 1 -> 400 [] k = 2 -> 404 [] k = 3 -> 403 [] k = 4 -> 400
      [] k = 5 -> 400 [] k = 6 -> 404 [] k = 7 -> 500
GuardText(k) ==
    CASE k = 1 -> "Order ID and Customer ID are required"
      [] k = 3 -> "Unauthorized access to order"
      [] k = 4 -> "Order is not ready for pickup"
      [] k = 5 -> "Order is not set for pay on pickup"
      [] k = 6 -> "Customer not found"

\* the collaborators called before guard k is evaluated
CallsBefore(k) ==
    CASE k = 1 -> <<>>
      [] k \in 2..5 -> <<"getOrderById">>
      [] k = 6 -> <<"getOrderById", "getUserProfile">>
      [] k = 7 -> <<"getOrderById", "getUserProfile", "initializePayment">>

\* the first guard that fails decides the response: an invocation one of whose
\* guards failed has ended with that guard's failure (so an order neither owned
\* by the caller nor READY yields 403), having called only the collaborators
\* of the guards before it
FirstFailureReported ==
    \A p \in Invocations :
        LET k == FailedGuard(p) IN
        k # 0
        => /\ Done(p)
           /\ ~Res(p).success
           /\ Res(p).status = GuardStatus(k)
           /\ k \in {1, 3, 4, 5, 6} => Res(p).error = GuardText(k)
           /\ calls[p] = CallsBefore(k)

\* the response of p and the response of q cannot be told apart
SameResponse(p, q) ==
    Res(p).status = Res(q).status /\ Res(p).error = Res(q).error

\* res is a response that a failure of guard k produces
FailureOf(k, res) ==
    /\ res.status = GuardStatus(k)
    /\ CASE k = 2 -> res.error = "Order not found"
                     \/ (res.error \in StoreErrors /\ Truthy(res.error))
         [] k = 7 -> res.error = "Failed to initialize payment"
                     \/ (res.error \in PaymentErrors /\ Truthy(res.error))
         [] OTHER -> res.error = GuardText(k)

\* guards j and k are the order lookup and the customer profile, and the text
\* is the one both can carry
SharedNotFound(j, k, text) ==
    {j, k} = {2, 6} /\ text = "Customer not found"

\* the responses of p and q, whose guards kp and kq failed, are the same
\* exactly when `same` allows it for these guards and texts
PairwiseDistinct(same(_, _, _)) ==
    \A p, q \in Invocations :
        LET kp == FailedGuard(p)
            kq == FailedGuard(q)
        IN (kp # 0 /\ kq # 0 /\ kp # kq)
           => (SameResponse(p, q)
               <=> same(kp, kq, Res(p).error) /\ same(kp, kq, Res(q).error))

\* the response of p, whose guard k failed, is one that the failure of
\* another guard j produces exactly when `same` allows it
NoOtherGuard(same(_, _, _)) ==
    \A p \in Invocations :
        LET k == FailedGuard(p) IN
        k # 0 => \A j \in (1..7) \ {k} :
                    FailureOf(j, Res(p)) <=> same(j, k, Res(p).error)

Never(j, k, text) == FALSE

(* C9 as stated: the guards are evaluated in the order identifiers, order   *)
(* lookup, ownership, status, payment method, customer profile, payment     *)
(* initiation, the failure reported is that of the first guard that fails,  *)
(* and the response to a guard's failure is never one that the failure of   *)
(* another guard produces.                                                  *)
C9_GuardOrder_AllDistinct ==
    /\ FirstFailureReported
    /\ NoOtherGuard(Never)
    /\ PairwiseDistinct(Never)

(* C9, amended: as stated, except that an order-lookup failure for which    *)
(* the store's error message is 'Customer not found' gets the same response *)
(* (404 with that text) as a customer-profile failure; every other pair of  *)
(* failures of different guards differs in the response.                    *)
C9_GuardOrder ==
    /\ FirstFailureReported
    /\ NoOtherGuard(SharedNotFound)
    /\ PairwiseDistinct(SharedNotFound)

\* an order that is neither the caller's nor READY nor set for pay on pickup
\* was answered 403, and a failed order lookup was answered otherwise
C9_Witness ==
    \E p, q \in Invocations :
        /\ FailedGuard(p) = 3
        /\ FoundOrder(p).status # READY
        /\ FoundOrder(p).paymentMethod # PAY_ON_PICKUP
        /\ Done(p) /\ Res(p).status = 403
        /\ FailedGuard(q) = 2
        /\ Done(q) /\ ~SameResponse(p, q)

(* C10 as stated: every invocation that has ended made exactly one          *)
(* payment-initiation call.                                                 *)
C10_ExactlyOneInitiation ==
    \A p \in Invocations : Done(p) => Cardinality(InitiationsBy(p)) = 1

(* C10, amended: every invocation makes at most one payment-initiation      *)
(* call: exactly one once the identifiers are present, the order is found,  *)
(* owned by the caller, READY and PAY_ON_PICKUP and the customer profile is *)
(* resolved, and none otherwise.                                            *)
C10_AtMostOneInitiation ==
    \A p \in Invocations :
        /\ Cardinality(InitiationsBy(p)) = IF Eligible(p) /\ Resolved(p) THEN 1 ELSE 0
        /\ Len(SelectSeq(calls[p], LAMBDA c : c = "initializePayment"))
              = Cardinality(InitiationsBy(p))

\* one invocation ended after its single initiation, another without any
C10_Witness ==
    \E p, q \in Invocations :
        /\ Done(p) /\ Cardinality(InitiationsBy(p)) = 1
        /\ Done(q) /\ Cardinality(InitiationsBy(q)) = 0
        /\ FailedGuard(q) = 6

\* everything invocation p holds
Locals(p) ==
    <<pc[p], request[p], orderResponse[p], customerResponse[p], paymentData[p],
      paymentResult[p], response[p], calls[p]>>

(* C11: no step of an invocation, on a success or on a failure path,        *)
(* changes the Order Store (the status, paymentMethod, customerId and       *)
(* finalAmount of every order stay as they were, so a READY order is still  *)
(* READY after a successful payment initiation), the configuration or what  *)
(* another invocation holds.                                                *)
C11_NoStateChange ==
    [][/\ orders' = orders
       /\ appUrl' = appUrl
       /\ \A p, q \in Invocations :
             (p # q /\ Locals(p)' # Locals(p)) => Locals(q)' = Locals(q)]_vars

\* a payment was initiated with success for a READY order, which the store
\* holds as the invocation found it
C11_Witness ==
    \E p \in Invocations :
        /\ Done(p) /\ Res(p).success
        /\ FoundOrder(p).status = READY
        /\ orders[Req(p).orderId] = FoundOrder(p)

(* C12: the handler neither deduplicates nor serializes: whenever two       *)
(* invocations for the same order, one after the other or overlapping, have *)
(* both found it READY, PAY_ON_PICKUP and owned by the caller and resolved  *)
(* the customer, each has made its own payment initiation, and the two      *)
(* initiations get two distinct references.                                 *)
C12_NoDeduplication ==
    \A p, q \in Invocations :
        (/\ p # q
         /\ Eligible(p) /\ Resolved(p)
         /\ Eligible(q) /\ Resolved(q)
         /\ Req(p).orderId = Req(q).orderId)
        => /\ Cardinality(InitiationsBy(p)) = 1
           /\ Cardinality(InitiationsBy(q)) = 1
           /\ Len(initiated) = 2
           /\ InitiationsBy(p) \cap InitiationsBy(q) = {}
           /\ Reference(InitiationOf(p)) # Reference(InitiationOf(q))
           /\ (/\ Done(p) /\ Res(p).success /\ Get(Res(p).data).reference # Undefined
               /\ Done(q) /\ Res(q).success /\ Get(Res(q).data).reference # Undefined)
              => Get(Res(p).data).reference # Get(Res(q).data).reference

\* two overlapping invocations for the same order both have a payment
\* initiation in flight
C12_Witness ==
    /\ pc[1] = "awaitPayment" /\ pc[2] = "awaitPayment"
    /\ Req(1).orderId = Req(2).orderId
    /\ Len(initiated) = 2
    /\ initiated[1].data.metadata.orderId = initiated[2].data.metadata.orderId

\* invocation p met a fault: its body did not parse to an object, a
\* collaborator's promise was rejected, or the order lookup's data held no order
Fault(p) ==
    \/ request[p] # None /\ Req(p).json # "object"
    \/ orderResponse[p] # None /\ Get(orderResponse[p]).throws
    \/ /\ orderResponse[p] # None
       /\ ~Get(orderResponse[p]).throws
       /\ Get(orderResponse[p]).success
       /\ Get(orderResponse[p]).data # None
       /\ Get(Get(orderResponse[p]).data).order = None
    \/ customerResponse[p] # None /\ Get(customerResponse[p]).throws
    \/ paymentResult[p] # None /\ Get(paymentResult[p]).throws

(* C13: every invocation ends with a tagged result: one that has started    *)
(* and not ended can take its next step whatever its collaborator answers,  *)
(* one that has ended holds a success result with data or a failure result  *)
(* with a message, and any fault (body parsing, a rejected or malformed     *)
(* answer of the Order Store, Identity Provider or Payment Initiator) has   *)
(* ended it with 500 and the fixed message 'Internal server error'.         *)
C13_FaultsCaught ==
    \A p \in Invocations :
        /\ Fault(p) => /\ Done(p)
                       /\ Res(p) = [status |-> 500, success |-> FALSE, data |-> None,
                                    error |-> "Internal server error"]
        /\ Done(p) <=> response[p] # None
        /\ Done(p) => IF Res(p).success
                      THEN Res(p).data # None /\ Res(p).error = Undefined
                      ELSE Res(p).data = None /\ Truthy(Res(p).error)
        /\ pc[p] \notin {"idle", "done"}
           => ENABLED (Receive(p) \/ OrderReturns(p) \/ ProfileReturns(p)
                         \/ PaymentReturns(p))

\* a rejected initializePayment and an order lookup without order were both
\* answered 'Internal server error'
C13_Witness ==
    \E p, q \in Invocations :
        /\ paymentResult[p] # None /\ Get(paymentResult[p]).throws
        /\ Done(p) /\ Res(p).error = "Internal server error"
        /\ orderResponse[q] # None /\ Get(orderResponse[q]).success
        /\ Get(orderResponse[q]).data = Some([order |-> None])
        /\ Done(q) /\ Res(q).error = "Internal server error"

\* the category of the failure that ended invocation p, from what p received
Category(p) ==
    LET k == FailedGuard(p) IN
    IF Fault(p) THEN "unexpected fault"
    ELSE CASE k = 1 -> "malformed request"
           [] k = 2 -> "not found"
           [] k = 3 -> "unauthorized"
           [] k = 4 -> "not ready"
           [] k = 5 -> "wrong payment method"
           [] k = 6 -> "not found"
           [] k = 7 -> "payment failure"
           [] OTHER -> "none"

\* the transport code of each category
CategoryCode(c) ==
    CASE c = "malformed request" -> 400
      [] c = "not found" -> 404
      [] c = "unauthorized" -> 403
      [] c = "not ready" -> 400
      [] c = "wrong payment method" -> 400
      [] c = "payment failure" -> 500
      [] c = "unexpected fault" -> 500

(* C14: every failure result carries the transport code of its category    *)
(* (malformed request 400, not found 404 for the order and for the          *)
(* customer, unauthorized 403, not ready and wrong payment method 400,      *)
(* payment failure and unexpected fault 500) and no other code, and a       *)
(* success result carries 200 and belongs to no failure category.           *)
C14_TransportCodes ==
    \A p \in Invocations :
        Done(p) => IF Res(p).success
                   THEN Res(p).status = 200 /\ Category(p) = "none"
                   ELSE /\ Category(p) # "none"
                        /\ Res(p).status = CategoryCode(Category(p))
                        /\ Res(p).status \in {400, 403, 404, 500}

\* one invocation was refused 403 and another ended in a payment failure 500
C14_Witness ==
    \E p, q \in Invocations :
        /\ Done(p) /\ Category(p) = "unauthorized" /\ Res(p).status = 403
        /\ Done(q) /\ Category(q) = "payment failure" /\ Res(q).status = 500

\* the invocation that made the n-th payment initiation
Initiator(n) == initiated[n].invocation

(* C15: the request of every payment initiation has as amount the           *)
(* finalAmount of the order the invocation found, which is the finalAmount  *)
(* the store holds (500000 stays 500000), and as currency 'NGN'.            *)
C15_AmountAndCurrency ==
    \A n \in 1..Len(initiated) :
        /\ OrderFound(Initiator(n))
        /\ initiated[n].data.amount = FoundOrder(Initiator(n)).finalAmount
        /\ initiated[n].data.amount = orders[Req(Initiator(n)).orderId].finalAmount
        /\ initiated[n].data.currency = "NGN"
        /\ paymentData[Initiator(n)] = Some(initiated[n].data)

\* a payment of 500000 NGN was initiated for an order of 500000
C15_Witness ==
    \E n \in 1..Len(initiated) :
        /\ FoundOrder(Initiator(n)).finalAmount = 500000
        /\ initiated[n].data.amount = 500000
        /\ initiated[n].data.currency = "NGN"

\* the phone of the profile that the invocation of the n-th initiation resolved
ResolvedPhone(n) == Get(Get(customerResponse[Initiator(n)]).data).phone

(* C16: in the request of every payment initiation the metadata             *)
(* phoneNumber is the customer's phone when that is a bare string, its      *)
(* number when the phone is a structured value with a number, and the empty *)
(* string when the phone is absent, null or a structure without a number.   *)
C16_PhoneNormalization ==
    \A n \in 1..Len(initiated) :
        /\ Resolved(Initiator(n))
        /\ initiated[n].data.metadata.phoneNumber =
             CASE ResolvedPhone(n).type = "string" -> ResolvedPhone(n).value
               [] ResolvedPhone(n).type = "object" /\ ResolvedPhone(n).value # Undefined
                    -> ResolvedPhone(n).value
               [] OTHER -> ""

\* a bare string phone was passed on and a structure without a number gave ""
C16_Witness ==
    \E n, m \in 1..Len(initiated) :
        /\ ResolvedPhone(n) = [type |-> "string", value |-> "08012345678"]
        /\ initiated[n].data.metadata.phoneNumber = "08012345678"
        /\ ResolvedPhone(m) = [type |-> "object", value |-> Undefined]
        /\ initiated[m].data.metadata.phoneNumber = ""

\* the profile that the invocation of the n-th initiation resolved
ResolvedProfile(n) == Get(Get(customerResponse[Initiator(n)]).data)

(* C17: the request of every payment initiation has the email of the        *)
(* resolved profile, metadata with the orderId and the customerId of the    *)
(* invocation's own request, the customer's first and last name joined by a *)
(* space and the payment type 'pay_on_pickup', and, when the base           *)
(* application URL is configured, that URL followed by '/payment/callback'  *)
(* as callback URL.                                                         *)
C17_PaymentRequest ==
    \A n \in 1..Len(initiated) :
        LET d == initiated[n].data
            p == Initiator(n)
        IN /\ Resolved(p)
           /\ d.email = ResolvedProfile(n).email
           /\ d.metadata.orderId = Req(p).orderId
           /\ d.metadata.customerId = Req(p).customerId
           /\ d.metadata.customerName =
                 ResolvedProfile(n).firstName \o " " \o ResolvedProfile(n).lastName
           /\ d.metadata.paymentType = "pay_on_pickup"
           /\ appUrl # Undefined => d.callback_url = appUrl \o "/payment/callback"

\* customer C1's payment for order O1 was initiated for Ada Lovelace with the
\* callback of the configured application
C17_Witness ==
    \E n \in 1..Len(initiated) :
        /\ initiated[n].data.email = "a@b.com"
        /\ initiated[n].data.metadata.orderId = "O1"
        /\ initiated[n].data.metadata.customerId = "C1"
        /\ initiated[n].data.metadata.customerName = "Ada Lovelace"
        /\ initiated[n].data.callback_url = "https://app.example/payment/callback"

\* what the invocation was given: whether it was made, its request body and
\* the collaborators' answers so far (the base URL is the same for every
\* invocation)
Given(p) ==
    <<pc[p] # "idle", request[p], orderResponse[p], customerResponse[p],
      paymentResult[p]>>

\* what the invocation made of it: its position, the collaborators it called,
\* the payment-initiation request it sent and the response it returned
Made(p) == <<pc[p], calls[p], paymentData[p], response[p]>>

(* C18: an invocation is a function of its request and of the answers of    *)
(* its collaborators: two invocations with the same orderId and customerId, *)
(* the same base URL and the same answers from the Order Store, the         *)
(* Identity Provider and the Payment Initiator have called the same         *)
(* collaborators, sent the same payment-initiation request and returned the *)
(* same response.                                                           *)
C18_Pure ==
    \A p, q \in Invocations : Given(p) = Given(q) => Made(p) = Made(q)

\* two invocations were given the same request and the same three answers,
\* both sent a payment-initiation request and both returned the success
C18_Witness ==
    \E p, q \in Invocations :
        /\ p # q
        /\ Done(p) /\ Done(q)
        /\ Given(p) = Given(q)
        /\ paymentResult[p] # None
        /\ paymentData[p] # None /\ paymentData[p] = paymentData[q]
        /\ Res(p).success /\ Res(p) = Res(q)

\* the collaborators in the order in which the handler calls them
CallSequence == <<"getOrderById", "getUserProfile", "initializePayment">>

\* an answer of the Order Store that stops the invocation
OrderStepFailed(p) == orderResponse[p] # None /\ ~Eligible(p)

\* an answer of the Identity Provider that stops the invocation
ProfileStepFailed(p) == customerResponse[p] # None /\ ~Resolved(p)

(* C19: the calls of an invocation are a prefix of getOrderById,            *)
(* getUserProfile, initializePayment, each made at most once;               *)
(* getUserProfile is called only when the looked-up order exists, is owned  *)
(* by the caller, is READY and is PAY_ON_PICKUP; initializePayment is       *)
(* called only when getUserProfile returned a profile; after a failed       *)
(* order step or profile step the invocation has ended and no later         *)
(* collaborator was called.                                                 *)
C19_LinearCalls ==
    \A p \in Invocations :
        /\ Len(calls[p]) <= Len(CallSequence)
        /\ calls[p] = SubSeq(CallSequence, 1, Len(calls[p]))
        /\ Len(calls[p]) >= 2 => Eligible(p)
        /\ Len(calls[p]) = 3 => Resolved(p) /\ Cardinality(InitiationsBy(p)) = 1
        /\ Len(calls[p]) < 3 => InitiationsBy(p) = {}
        /\ OrderStepFailed(p) => Done(p) /\ calls[p] = <<"getOrderById">>
        /\ ProfileStepFailed(p) =>
              Done(p) /\ calls[p] = <<"getOrderById", "getUserProfile">>

\* one invocation called the three collaborators in turn and ended, another
\* one ended after the order step failed, with the Order Store called alone
C19_Witness ==
    \E p, q \in Invocations :
        /\ Done(p) /\ calls[p] = CallSequence
        /\ Done(q) /\ OrderStepFailed(q) /\ calls[q] = <<"getOrderById">>

\* getOrderById answered p with success and a data record without an order
OrderMissingFromPayload(p) ==
    /\ orderResponse[p] # None
    /\ ~Get(orderResponse[p]).throws
    /\ Get(orderResponse[p]).success
    /\ Get(orderResponse[p]).data # None
    /\ Get(Get(orderResponse[p]).data).order = None

(* C20: whenever getOrderById reports success with a data record that       *)
(* contains no order, the invocation has ended with a 404 failure.  The     *)
(* handler does not behave so: line 26 lets the payload pass because data   *)
(* is present, line 37 reads customerId of the undefined order, and the     *)
(* catch block answers 500 'Internal server error'.                         *)
C20_MissingOrderIsNotFound ==
    \A p \in Invocations :
        OrderMissingFromPayload(p) =>
            /\ Done(p)
            /\ ~Res(p).success
            /\ Res(p).status = 404

-----------------------------------------------------------------------------
(* Registration page (RegisterPage): data *)

\* the handler is not running: no order, no configuration, no invocation
HandlerAbsent ==
    /\ orders = <<>>
    /\ appUrl = Undefined
    /\ pc = <<>>
    /\ request = <<>>
    /\ orderResponse = <<>>
    /\ customerResponse = <<>>
    /\ paymentData = <<>>
    /\ paymentResult = <<>>
    /\ response = <<>>
    /\ calls = <<>>
    /\ initiated = <<>>

\* the characters typed into the password fields, by class: [a-z], [A-Z], \d
Lowercase == {"a", "b", "c", "d", "e", "f", "g", "h"}
Uppercase == {"A"}
Digits == {"1"}

\* the strings typed into the password field, as sequences of characters:
\* '', 'Ab1', 'abcdefg1' and 'Abcdefg1'
Passwords ==
    { <<>>,
      <<"A", "b", "1">>,
      <<"a", "b", "c", "d", "e", "f", "g", "1">>,
      <<"A", "b", "c", "d", "e", "f", "g", "1">> }

\* the strings typed into the confirmation field: '', 'abcdefg1' and 'Abcdefg1'
Confirmations ==
    { <<>>,
      <<"a", "b", "c", "d", "e", "f", "g", "1">>,
      <<"A", "b", "c", "d", "e", "f", "g", "1">> }

\* the strings typed into the phone field
PhoneInputs == {"", "12345", "08012345678"}

\* validateNigerianPhone of @/lib/validations, on the strings typed: the page
\* asks for the format 0XXXXXXXXXX
validateNigerianPhone(phone) == phone \in {"08012345678"}

\* the inputs of the form and the values typed into each
FieldNames ==
    {"firstName", "lastName", "email", "phone", "password", "confirmPassword"}
FieldValues(name) ==
    CASE name = "firstName" -> {"", "Ada"}
      [] name = "lastName" -> {"", "Lovelace"}
      [] name = "email" -> {"", "a@b.com"}
      [] name = "phone" -> PhoneInputs
      [] name = "password" -> Passwords
      [] name = "confirmPassword" -> Confirmations

\* the messages of the page
PhoneMessage == "Please enter a valid Nigerian phone number (0XXXXXXXXXX)"
PasswordLengthMessage == "Password must be at least 8 characters long"
PasswordPatternMessage ==
    "Password must contain at least one uppercase letter, one lowercase letter, and one number"
PasswordMismatchMessage == "Passwords do not match"
RegistrationFailedMessage == "Registration failed"
UnexpectedErrorMessage == "An unexpected error occurred"

\* router.push target after a successful registration: the success message
\* through encodeURIComponent
LoginRedirect ==
    "/login?message=Registration%20successful!%20Please%20check%20your%20email%20for%20verification%20and%20log%20in%20to%20continue.&type=success"

\* what register settles with: a rejected promise or {success, error?}
RegisterResults ==
    [throws : {TRUE}, success : {FALSE}, error : {Undefined}]
    \cup [throws : {FALSE}, success : {TRUE}, error : {Undefined}]
    \cup [throws : {FALSE}, success : {FALSE},
          error : {Undefined, "Email already registered"}]

-----------------------------------------------------------------------------
(* Registration page: validation *)

\* a pattern test without the uppercase lookahead
PasswordPattern_NoUppercase(password) ==
    /\ \E i \in 1..Len(password) : password[i] \in Lowercase
    /\ \E i \in 1..Len(password) : password[i] \in Digits

\* /^(?=.*[a-z])(?=.*[A-Z])(?=.*\d)/.test(password)
PasswordPattern(password) ==
    /\ \E i \in 1..Len(password) : password[i] \in Lowercase
    /\ \E i \in 1..Len(password) : password[i] \in Uppercase
    /\ \E i \in 1..Len(password) : password[i] \in Digits

\* the real-time phone validation of handleInputChange
PhoneErrorOf(value) ==
    IF value # "" /\ ~validateNigerianPhone(value) THEN PhoneMessage ELSE ""

\* the real-time password validation of handleInputChange
PasswordErrorOf(value) ==
    IF value # <<>> /\ Len(value) < 8 THEN PasswordLengthMessage
    ELSE IF value # <<>> /\ ~PasswordPattern(value) THEN PasswordPatternMessage
    ELSE ""

\* the validation of handleSubmit: the message of the first check that fails,
\* or None when register is to be called
SubmitError(r) ==
    IF r.formData.password # r.formData.confirmPassword
    THEN Some(PasswordMismatchMessage)
    ELSE IF r.phoneError # "" THEN Some(r.phoneError)
    ELSE IF r.passwordError # "" THEN Some(r.passwordError)
    ELSE IF ~validateNigerianPhone(r.formData.phone) THEN Some(PhoneMessage)
    ELSE IF Len(r.formData.password) < 8 THEN Some(PasswordLengthMessage)
    ELSE IF ~PasswordPattern(r.formData.password) THEN Some(PasswordPatternMessage)
    ELSE None

\* the argument of register
RegisterPayload(formData) ==
    [firstName |-> formData.firstName,
     lastName |-> formData.lastName,
     email |-> formData.email,
     phone |-> formData.phone,
     password |-> formData.password]

-----------------------------------------------------------------------------
(* Registration page: state machine *)

\* the page as mounted: the useState cells, the register calls awaited (pending),
\* the argument of the latest register call (sent), what register last settled
\* with (settled) and the route pushed
RegisterInit ==
    /\ HandlerAbsent
    /\ dashboard = None
    /\ register = [formData |-> [firstName |-> "", lastName |-> "", email |-> "",
                                 phone |-> "", password |-> <<>>,
                                 confirmPassword |-> <<>>],
                   isLoading |-> FALSE,
                   error |-> "",
                   phoneError |-> "",
                   passwordError |-> "",
                   pending |-> 0,
                   sent |-> None,
                   settled |-> None,
                   pushed |-> None]

\* handleInputChange: an input of the form changes
HandleInputChange ==
    /\ register.pushed = None
    /\ \E name \in FieldNames : \E value \in FieldValues(name) :
         register' =
           [register EXCEPT
              !.formData = [@ EXCEPT ![name] = value],
              !.phoneError = IF name = "phone" THEN PhoneErrorOf(value) ELSE @,
              !.passwordError = IF name = "password" THEN PasswordErrorOf(value) ELSE @]
    /\ UNCHANGED <<handler, dashboard>>

\* handleSubmit up to its await: the validation, then the call of register.
\* The form is submitted through its button, which is disabled while
\* isLoading and while phoneError or passwordError is set (line 302)
HandleSubmit ==
    /\ register.pushed = None
    /\ ~register.isLoading
    /\ register.phoneError = ""
    /\ register.passwordError = ""
    /\ LET failed == SubmitError(register) IN
       IF failed # None
       THEN register' = [register EXCEPT !.error = Get(failed)]
       ELSE register' = [register EXCEPT
                           !.error = "",
                           !.isLoading = TRUE,
                           !.pending = @ + 1,
                           !.sent = Some(RegisterPayload(register.formData))]
    /\ UNCHANGED <<handler, dashboard>>

\* an outcome handling that redirects whatever register returned
RegisterOutcome_AlwaysRedirects(r, result) ==
    IF result.throws
    THEN [r EXCEPT !.error = UnexpectedErrorMessage, !.isLoading = FALSE,
                   !.pushed = Some(LoginRedirect)]
    ELSE IF result.success
    THEN [r EXCEPT !.error = "", !.isLoading = FALSE, !.pushed = Some(LoginRedirect)]
    ELSE [r EXCEPT !.error = OrElse(result.error, RegistrationFailedMessage),
                   !.isLoading = FALSE, !.pushed = Some(LoginRedirect)]

\* handleSubmit after its await: success, failure, catch and finally
RegisterOutcome(r, result) ==
    IF result.throws
    THEN [r EXCEPT !.error = UnexpectedErrorMessage, !.isLoading = FALSE]
    ELSE IF result.success
    THEN [r EXCEPT !.error = "", !.isLoading = FALSE, !.pushed = Some(LoginRedirect)]
    ELSE [r EXCEPT !.error = OrElse(result.error, RegistrationFailedMessage),
                   !.isLoading = FALSE]

\* register settles
RegisterReturns ==
    /\ register.pending > 0
    /\ \E result \in RegisterResults :
         register' = [RegisterOutcome(register, result) EXCEPT
                        !.pending = @ - 1, !.settled = Some(result)]
    /\ UNCHANGED <<handler, dashboard>>

RegisterNext ==
    \/ HandleInputChange
    \/ HandleSubmit
    \/ RegisterReturns

SpecRegister == RegisterInit /\ [][RegisterNext]_vars

-----------------------------------------------------------------------------
(* Registration page: claims *)

\* the form data that the claim lets through: equal passwords, a valid phone,
\* a password of 8 characters or more with a lowercase letter, an uppercase
\* letter and a digit
Acceptable(formData) ==
    /\ formData.password = formData.confirmPassword
    /\ validateNigerianPhone(formData.phone)
    /\ Len(formData.password) >= 8
    /\ \A class \in {Lowercase, Uppercase, Digits} :
         \E i \in 1..Len(formData.password) : formData.password[i] \in class

(* C22: a step calls register only if it is a submit of acceptable form     *)
(* data (equal passwords, valid phone, strong password), and then with      *)
(* these data; every submit of other form data sets a non-empty error and   *)
(* calls nothing.  The steps before it are arbitrary input changes and      *)
(* earlier submits, each made while the submit button is enabled.           *)
C22_RegisterOnlyValidated ==
    [][/\ register'.pending > register.pending =>
            /\ HandleSubmit
            /\ Acceptable(register.formData)
            /\ register'.sent = Some([firstName |-> register.formData.firstName,
                                      lastName |-> register.formData.lastName,
                                      email |-> register.formData.email,
                                      phone |-> register.formData.phone,
                                      password |-> register.formData.password])
       /\ register'.sent # register.sent => register'.pending > register.pending
       /\ (HandleSubmit /\ ~Acceptable(register.formData)) =>
            /\ register'.error # ""
            /\ register'.pending = register.pending
            /\ register'.sent = register.sent]_vars

\* after a submit that called register and was answered, the passwords were
\* changed and a second submit was refused for the mismatch, without a call
C22_Witness ==
    /\ register.sent # None
    /\ register.sent[1].password = register.formData.password
    /\ register.pending = 0
    /\ register.settled # None
    /\ ~register.isLoading
    /\ register.error = PasswordMismatchMessage
    /\ register.formData.password # register.formData.confirmPassword

(* C23: when register settles, isLoading becomes false; a rejected promise  *)
(* sets the error 'An unexpected error occurred' and a failure sets the     *)
(* returned message or 'Registration failed', both without a redirect; a    *)
(* success pushes the login page; and no other step pushes a route.         *)
C23_RegisterOutcome ==
    [][/\ RegisterReturns =>
            LET result == Get(register'.settled) IN
            /\ register'.isLoading = FALSE
            /\ result.throws =>
                 /\ register'.error = "An unexpected error occurred"
                 /\ register'.pushed = register.pushed
            /\ (~result.throws /\ ~result.success) =>
                 /\ register'.error =
                      IF result.error \in {Undefined, ""} THEN "Registration failed"
                      ELSE result.error
                 /\ register'.pushed = register.pushed
            /\ (~result.throws /\ result.success) => register'.pushed # None
       /\ register'.pushed # register.pushed =>
            /\ RegisterReturns
            /\ Get(register'.settled).success]_vars

\* a register call failed with the message of the Identity Provider: the
\* message is shown, the page is not loading and nothing was pushed
C23_Witness ==
    /\ register.settled # None
    /\ ~Get(register.settled).throws /\ ~Get(register.settled).success
    /\ register.error = "Email already registered"
    /\ register.isLoading = FALSE
    /\ register.pending = 0
    /\ register.pushed = None

-----------------------------------------------------------------------------
(* Owner dashboard (OwnerDashboard): data *)

\* the orders the Order Store may hold
MaxOrders == 11

\* the present day, and the days on which the stored orders were created
Today == 100
CreationDays == {Today - 31, Today - 30, Today - 29, Today}

\* the window of activity, in days
ThirtyDays == 30
\* the limits passed to getAllUsers and getOrdersByStatus, and the length of
\* the list of recent orders
UsersLimit == 500
TestLimit == 5
StatusLimit == 100
RecentLimit == 10

\* the statuses in the order in which loadOrdersData queries them
StatusQueries == <<"PENDING", "PICKED_UP", "CONFIRMED", "IN_PROGRESS", "READY",
                   "DELIVERED", "CANCELLED">>

UserRole == {"OWNER", "ADMIN", "STAFF", "CUSTOMER"}
OWNER == "OWNER"

\* the async functions of the page that may run at the same time
Tasks == {1, 2}

\* what useAuth may give: no user, a user whose role is not known yet, a
\* member of the staff, the owner, and a role left over without a user
Sessions ==
    { [user |-> <<>>, userRole |-> "<undefined>"],
      [user |-> <<>>, userRole |-> "OWNER"],
      [user |-> <<"user-1">>, userRole |-> "<undefined>"],
      [user |-> <<"user-1">>, userRole |-> "STAFF"],
      [user |-> <<"user-1">>, userRole |-> "OWNER"] }

\* a JavaScript number that is a quotient: num / den in lowest terms
RECURSIVE Gcd(_, _)
Gcd(a, b) == IF b = 0 THEN a ELSE Gcd(b, a % b)
Number(n) == [num |-> n, den |-> 1]
Divide(a, b) == [num |-> a \div Gcd(a, b), den |-> b \div Gcd(a, b)]

\* s.slice(0, n)
Take(s, n) == SubSeq(s, 1, IF Len(s) < n THEN Len(s) ELSE n)

\* the answers of the store: a rejected promise, a failure, a success without
\* data, or a success with the data
AnswerModes == {"ok", "nodata", "fail", "throw"}
Answer(mode, data) ==
    [throws |-> mode = "throw",
     success |-> mode \in {"ok", "nodata"},
     data |-> IF mode = "ok" THEN Some(data) ELSE None]

\* response.success && response.data
HasData(r) == ~r.throws /\ r.success /\ r.data # None

\* Order Store, lookup by customer and lookup by status: the stored orders of
\* the customer, or of the status, in the order of the store, up to the limit
getOrdersByCustomer(store, customerId) ==
    SelectSeq(store.orders, LAMBDA o : o.customerId = customerId)
getOrdersByStatus(store, status, limit) ==
    Take(SelectSeq(store.orders, LAMBDA o : o.status = status), limit)
\* Identity Provider: the users, up to the limit
getAllUsers(store, limit) == Take(store.users, limit)

-----------------------------------------------------------------------------
(* Owner dashboard: statistics *)

\* reduce((sum, order) => sum + order.finalAmount, 0)
RECURSIVE SumAmounts(_)
SumAmounts(s) ==
    IF s = <<>> THEN 0 ELSE SumAmounts(SubSeq(s, 1, Len(s) - 1)) + s[Len(s)].finalAmount

\* sort((a, b) => created(b) - created(a)): the most recent first, orders of
\* the same day in the order they had (the sort is stable)
InsertByDate(sorted, o) ==
    LET k == Cardinality({i \in 1..Len(sorted) : sorted[i].createdAt >= o.createdAt})
    IN SubSeq(sorted, 1, k) \o <<o>> \o SubSeq(sorted, k + 1, Len(sorted))
RECURSIVE SortRecentFirst(_)
SortRecentFirst(s) ==
    IF s = <<>> THEN <<>>
    ELSE InsertByDate(SortRecentFirst(SubSeq(s, 1, Len(s) - 1)), s[Len(s)])

\* new Date(createdAt) > thirtyDaysAgo, the latter being today less 30 days
WithinThirtyDays(createdAt) == createdAt > Today - ThirtyDays

\* the statistics of a customer that take every returned order for the first
CustomerStats_FirstReturned(customer, r) ==
    LET found == HasData(r)
        data == IF found THEN Get(r.data) ELSE <<>>
        lastOrderDate == IF data # <<>> THEN Some(data[1].createdAt) ELSE None
    IN [id |-> customer.id,
        totalOrders |-> Len(data),
        totalSpent |-> SumAmounts(data),
        lastOrderDate |-> lastOrderDate,
        status |-> IF lastOrderDate # None /\ WithinThirtyDays(Get(lastOrderDate))
                   THEN "active" ELSE "inactive"]

\* loadCustomersData, the statistics of one customer from the answer r of
\* getOrdersByCustomer
CustomerStats(customer, r) ==
    LET found == HasData(r)
        data == IF found THEN Get(r.data) ELSE <<>>
        lastOrderDate == IF data # <<>> THEN Some(SortRecentFirst(data)[1].createdAt)
                         ELSE None
    IN [id |-> customer.id,
        totalOrders |-> Len(data),
        totalSpent |-> SumAmounts(data),
        lastOrderDate |-> lastOrderDate,
        status |-> IF lastOrderDate # None /\ WithinThirtyDays(Get(lastOrderDate))
                   THEN "active" ELSE "inactive"]

\* customersWithStats.filter(c => c.status === 'active').length
CountActive(list) == Cardinality({i \in 1..Len(list) : list[i].status = "active"})

\* allOrders: the data of the answers that have data, in the order of the queries
RECURSIVE AllOrders(_)
AllOrders(answers) ==
    IF answers = <<>> THEN <<>>
    ELSE AllOrders(SubSeq(answers, 1, Len(answers) - 1))
           \o (IF HasData(answers[Len(answers)]) THEN Get(answers[Len(answers)].data)
               ELSE <<>>)

\* order statistics whose revenue counts every order
OrderStats_RevenueOfAll(stats, allOrders) ==
    LET delivered == SelectSeq(allOrders, LAMBDA o : o.status = "DELIVERED")
        totalRevenue == SumAmounts(allOrders)
    IN [stats EXCEPT
          !.totalRevenue = totalRevenue,
          !.monthlyRevenue =
              SumAmounts(SelectSeq(delivered, LAMBDA o : WithinThirtyDays(o.createdAt))),
          !.totalOrders = Len(allOrders),
          !.pendingOrders = Len(SelectSeq(allOrders, LAMBDA o : o.status = "PENDING")),
          !.completedOrders = Len(delivered),
          !.averageOrderValue = IF Len(allOrders) > 0
                                THEN Divide(totalRevenue, Len(allOrders))
                                ELSE Number(0)]

\* loadOrdersData, the statistics computed from the orders fetched
OrderStats(stats, allOrders) ==
    LET delivered == SelectSeq(allOrders, LAMBDA o : o.status = "DELIVERED")
        totalRevenue == SumAmounts(delivered)
    IN [stats EXCEPT
          !.totalRevenue = totalRevenue,
          !.monthlyRevenue =
              SumAmounts(SelectSeq(delivered, LAMBDA o : WithinThirtyDays(o.createdAt))),
          !.totalOrders = Len(allOrders),
          !.pendingOrders = Len(SelectSeq(allOrders, LAMBDA o : o.status = "PENDING")),
          !.completedOrders = Len(delivered),
          !.averageOrderValue = IF Len(allOrders) > 0
                                THEN Divide(totalRevenue, Len(allOrders))
                                ELSE Number(0)]

\* a fallback that resets every statistic
ResetOrderStats_Everything(stats) ==
    [stats EXCEPT
       !.totalOrders = 0, !.pendingOrders = 0, !.completedOrders = 0,
       !.totalRevenue = 0, !.monthlyRevenue = 0, !.averageOrderValue = Number(0),
       !.activeCustomers = 0, !.totalStaff = 0, !.activeStaff = 0]

\* loadOrdersData, the statistics of the catch block
ResetOrderStats(stats) ==
    [stats EXCEPT
       !.totalOrders = 0, !.pendingOrders = 0, !.completedOrders = 0,
       !.totalRevenue = 0, !.monthlyRevenue = 0, !.averageOrderValue = Number(0)]

\* loadStaffData, the statistics of one member
StaffStats(member) ==
    [id |-> member.id,
     ordersHandled |-> IF member.totalOrdersHandled = None THEN 0
                       ELSE Get(member.totalOrdersHandled),
     performance |-> IF member.averageRating = Undefined THEN "4.5"
                     ELSE member.averageRating,
     status |-> IF member.isActive = TRUE THEN "active" ELSE "inactive"]

-----------------------------------------------------------------------------
(* Owner dashboard: state *)

\* the form of a service as first shown (lines 57-71) and the form of a staff
\* member (lines 85-100); of the text fields that are carried alike, name and
\* email stand for the others
InitialServiceForm ==
    [name |-> "", basePrice |-> "", pricePerKg |-> "", displayOrder |-> "",
     isActive |-> TRUE]
InitialStaffForm ==
    [firstName |-> "", lastName |-> "", email |-> "", phone |-> "",
     password |-> "", role |-> "STAFF", employeeId |-> ""]

\* an async function that is not running
Idle == [kind |-> "idle", pc |-> "done", calls |-> <<>>, local |-> None]

\* a call of a collaborator
Call(fn, arg) == [fn |-> fn, arg |-> arg]

\* the page as mounted: the useState cells (lines 33-104), the user and role
\* of useAuth, the user and role of the last run of the effect, the route
\* pushed, a slot for each async function that may run,
\* the data the collaborators hold and the sessions useAuth may give
Mounted(store, auth, slots) ==
    [user |-> None,
     userRole |-> Undefined,
     pushed |-> None,
     deps |-> None,
     isLoading |-> TRUE,
     customers |-> <<>>,
     staff |-> <<>>,
     recentOrders |-> <<>>,
     services |-> <<>>,
     stats |-> [totalRevenue |-> 0, monthlyRevenue |-> 0, totalOrders |-> 0,
                activeCustomers |-> 0, pendingOrders |-> 0, completedOrders |-> 0,
                averageOrderValue |-> Number(0), customerSatisfaction |-> "4.8",
                totalStaff |-> 0, activeStaff |-> 0],
     showCreateService |-> FALSE,
     editingService |-> None,
     serviceFormData |-> InitialServiceForm,
     showCreateStaff |-> FALSE,
     staffFormData |-> InitialStaffForm,
     showDeleteConfirmation |-> FALSE,
     staffToDelete |-> None,
     isDeleting |-> FALSE,
     tasks |-> [t \in slots |-> Idle],
     store |-> store,
     auth |-> auth]

\* the page is shown, and not the spinner of line 620: the events of the page
\* reach its handlers then.  An event has besides the condition under which
\* its form or dialog is shown and its button enabled; the tabs of the page
\* are switched freely and are left out
Rendered == ~dashboard.isLoading

\* the first slot in which an async function can start
Free(t) ==
    /\ t \in DOMAIN dashboard.tasks
    /\ dashboard.tasks[t].pc = "done"
    /\ \A u \in DOMAIN dashboard.tasks : u < t => dashboard.tasks[u].pc # "done"

\* the task goes on with the call of fn
Goes(task, fn, arg) ==
    [task EXCEPT !.pc = fn, !.calls = Append(@, Call(fn, arg))]

\* the function has returned: its calls are over, and what it last read of a
\* collaborator is kept to tell how it ended
Ends(task, local) ==
    [task EXCEPT !.pc = "done", !.calls = <<>>, !.local = local]

-----------------------------------------------------------------------------
(* Owner dashboard: the access gate and loadDashboardData *)

\* a gate that asks for a user and not for a role
Gate_AnyRole(session) ==
    IF session.user = None THEN Some("/owner/login") ELSE None

\* the route the effect pushes for a user and role (lines 149-157), if any
Gate(session) ==
    IF session.user = None THEN Some("/owner/login")
    ELSE IF session.userRole = Undefined \/ session.userRole # OWNER
    THEN Some("/login")
    ELSE None

\* the effect (lines 147-163), run at mount and when useAuth gives another
\* user or role: a redirect, or loadDashboardData up to its first await
Effect ==
    /\ \E session \in dashboard.auth :
           LET seen == [dashboard EXCEPT !.user = session.user,
                                         !.userRole = session.userRole,
                                         !.deps = Some(session)] IN
           /\ dashboard.deps # Some(session)
           /\ IF Gate(session) # None
              THEN dashboard' = [seen EXCEPT !.pushed = Gate(session)]
              ELSE \E t \in Tasks :
                  /\ Free(t)
                  /\ dashboard' =
                       [seen EXCEPT
                          !.isLoading = TRUE,
                          !.tasks[t] = [kind |-> "loadDashboardData",
                                        pc |-> "getAllUsers",
                                        calls |-> <<Call("getAllUsers", UsersLimit)>>,
                                        local |-> None]]
    /\ UNCHANGED <<handler, register>>

\* the calls of getOrdersByCustomer, one for each customer
RECURSIVE CustomerCalls(_)
CustomerCalls(users) ==
    IF users = <<>> THEN <<>>
    ELSE CustomerCalls(SubSeq(users, 1, Len(users) - 1))
           \o <<Call("getOrdersByCustomer", users[Len(users)].id)>>

\* customersWithStats
CustomersWithStats(users, answers) ==
    [i \in 1..Len(users) |-> CustomerStats(users[i], answers[i])]

\* loadCustomersData once Promise.all has settled (lines 206-266), then
\* loadStaffData up to its await (line 271): a rejected lookup goes to the
\* catch block, otherwise the customers and their number are set
OrdersSettled(d, t, users, answers) ==
    LET next == [Goes(d.tasks[t], "getAllAdminUsers", Undefined)
                   EXCEPT !.local = Some([users |-> users, answers |-> answers])]
        list == CustomersWithStats(users, answers)
    IN IF \E i \in 1..Len(users) : answers[i].throws
       THEN [d EXCEPT !.tasks[t] = next]
       ELSE [d EXCEPT
               !.customers = list,
               !.stats = [@ EXCEPT !.activeCustomers = CountActive(list)],
               !.tasks[t] = next]

\* loadCustomersData after getAllUsers (lines 193-206): the order lookups of
\* the customers; with no customer Promise.all([]) settles without a call
\* and the function runs on; or the failure branches and then loadStaffData
UsersReturn(t) ==
    /\ t \in DOMAIN dashboard.tasks
    /\ dashboard.tasks[t].kind = "loadDashboardData"
    /\ dashboard.tasks[t].pc = "getAllUsers"
    /\ \E mode \in AnswerModes :
         LET r == Answer(mode, getAllUsers(dashboard.store, UsersLimit)) IN
         IF HasData(r)
         THEN IF Get(r.data) = <<>>
              THEN dashboard' = OrdersSettled(dashboard, t, <<>>, <<>>)
              ELSE dashboard' =
                     [dashboard EXCEPT
                        !.tasks[t] = [@ EXCEPT !.pc = "getOrdersByCustomer",
                                               !.calls = @ \o CustomerCalls(Get(r.data)),
                                               !.local = r.data]]
         ELSE dashboard' =
                [dashboard EXCEPT !.tasks[t] = Goes(@, "getAllAdminUsers", Undefined)]
    /\ UNCHANGED <<handler, register>>

\* loadCustomersData after the order lookups (lines 208-258), then loadStaffData
CustomerOrdersReturn(t) ==
    /\ t \in DOMAIN dashboard.tasks
    /\ dashboard.tasks[t].kind = "loadDashboardData"
    /\ dashboard.tasks[t].pc = "getOrdersByCustomer"
    /\ LET users == Get(dashboard.tasks[t].local) IN
       \E modes \in [1..Len(users) -> AnswerModes] :
         LET answers == [i \in 1..Len(users) |->
                           Answer(modes[i],
                                  getOrdersByCustomer(dashboard.store, users[i].id))]
         IN dashboard' = OrdersSettled(dashboard, t, users, answers)
    /\ UNCHANGED <<handler, register>>

\* loadStaffData after getAllAdminUsers (lines 268-294); within
\* loadDashboardData, then loadOrdersData up to its first await
AdminUsersReturn(t) ==
    /\ t \in DOMAIN dashboard.tasks
    /\ dashboard.tasks[t].kind \in {"loadDashboardData", "loadStaffData"}
    /\ dashboard.tasks[t].pc = "getAllAdminUsers"
    /\ \E mode \in AnswerModes :
         LET r == Answer(mode, dashboard.store.admins)
             list == [i \in 1..Len(dashboard.store.admins) |->
                        StaffStats(dashboard.store.admins[i])]
             loaded == IF HasData(r)
                       THEN [dashboard EXCEPT
                               !.staff = list,
                               !.stats = [@ EXCEPT !.totalStaff = Len(list),
                                                   !.activeStaff = CountActive(list)]]
                       ELSE dashboard
         IN dashboard' =
              [loaded EXCEPT
                 !.tasks[t] =
                    IF @.kind = "loadDashboardData"
                    THEN [Goes(@, "getOrdersByStatus", <<"PENDING", TestLimit>>)
                            EXCEPT !.pc = "testOrders", !.local = None]
                    ELSE Ends(@, @.local)]
    /\ UNCHANGED <<handler, register>>

\* the catch block of loadOrdersData (lines 388-401)
OrdersFallback(d) ==
    [d EXCEPT !.recentOrders = <<>>, !.stats = ResetOrderStats(@)]

\* the seven calls of getOrdersByStatus
StatusCalls ==
    [i \in 1..Len(StatusQueries) |->
        Call("getOrdersByStatus", <<StatusQueries[i], StatusLimit>>)]

\* loadOrdersData after the test query (lines 301-317): the seven status
\* queries, or the catch block and then loadServicesData
TestOrdersReturn(t) ==
    /\ t \in DOMAIN dashboard.tasks
    /\ dashboard.tasks[t].kind = "loadDashboardData"
    /\ dashboard.tasks[t].pc = "testOrders"
    /\ \E mode \in AnswerModes :
         IF mode = "throw"
         THEN dashboard' =
                [OrdersFallback(dashboard) EXCEPT
                   !.tasks[t] = Goes(@, "getActiveServices", Undefined)]
         ELSE dashboard' =
                [dashboard EXCEPT
                   !.tasks[t] = [@ EXCEPT !.pc = "getOrdersByStatus",
                                          !.calls = @ \o StatusCalls]]
    /\ UNCHANGED <<handler, register>>

\* how the seven status queries answer: all with their orders, or all but one
StatusModes ==
    {[i \in 1..Len(StatusQueries) |-> "ok"]}
    \cup {[i \in 1..Len(StatusQueries) |-> IF i = k THEN mode ELSE "ok"] :
            k \in 1..Len(StatusQueries), mode \in AnswerModes \ {"ok"}}

\* loadOrdersData after the status queries (lines 330-401), then
\* loadServicesData up to its await
StatusOrdersReturn(t) ==
    /\ t \in DOMAIN dashboard.tasks
    /\ dashboard.tasks[t].kind = "loadDashboardData"
    /\ dashboard.tasks[t].pc = "getOrdersByStatus"
    /\ \E modes \in StatusModes :
         LET answers == [i \in 1..Len(StatusQueries) |->
                           Answer(modes[i],
                                  getOrdersByStatus(dashboard.store, StatusQueries[i],
                                                    StatusLimit))]
             allOrders == AllOrders(answers)
             next == [Goes(dashboard.tasks[t], "getActiveServices", Undefined)
                        EXCEPT !.local = Some([answers |-> answers])]
         IN IF \E i \in 1..Len(answers) : answers[i].throws
            THEN dashboard' = [OrdersFallback(dashboard) EXCEPT !.tasks[t] = next]
            ELSE dashboard' =
                   [dashboard EXCEPT
                      !.recentOrders = Take(SortRecentFirst(allOrders), RecentLimit),
                      !.stats = OrderStats(@, allOrders),
                      !.tasks[t] = next]
    /\ UNCHANGED <<handler, register>>

\* loadServicesData after getActiveServices (lines 404-413), which answers
\* with the services of the store or, once they are deactivated, with none;
\* then the end of loadDashboardData (line 184), of handleCreateService
\* (resetServiceForm, lines 417-435, and line 483) or of
\* handleToggleServiceStatus (line 513), which leaves isLoading alone
ServicesReturn(t) ==
    /\ t \in DOMAIN dashboard.tasks
    /\ dashboard.tasks[t].kind \in {"loadDashboardData", "handleCreateService",
                                    "handleToggleServiceStatus"}
    /\ dashboard.tasks[t].pc = "getActiveServices"
    /\ \E mode \in AnswerModes : \E active \in {dashboard.store.services, <<>>} :
         LET r == Answer(mode, active)
             loaded == IF HasData(r) THEN [dashboard EXCEPT !.services = Get(r.data)]
                       ELSE dashboard
             reset == IF dashboard.tasks[t].kind = "handleCreateService"
                      THEN [loaded EXCEPT !.serviceFormData = InitialServiceForm,
                                          !.editingService = None,
                                          !.showCreateService = FALSE]
                      ELSE loaded
         IN dashboard' = [reset EXCEPT
                            !.isLoading =
                               IF dashboard.tasks[t].kind = "handleToggleServiceStatus"
                               THEN @ ELSE FALSE,
                            !.tasks[t] = Ends(@, None)]
    /\ UNCHANGED <<handler, register>>

\* handleLogout (lines 582-583) up to its await of logout
HandleLogout ==
    /\ Rendered
    /\ \E t \in Tasks :
         /\ Free(t)
         /\ dashboard' =
              [dashboard EXCEPT
                 !.tasks[t] = [kind |-> "handleLogout", pc |-> "logout",
                               calls |-> <<Call("logout", Undefined)>>,
                               local |-> None]]
    /\ UNCHANGED <<handler, register>>

\* logout settles (line 584): the login page of the owner is pushed, unless
\* logout was rejected
LogoutReturns(t) ==
    /\ t \in DOMAIN dashboard.tasks
    /\ dashboard.tasks[t].kind = "handleLogout"
    /\ dashboard.tasks[t].pc = "logout"
    /\ \E mode \in {"ok", "throw"} :
         dashboard' =
           [dashboard EXCEPT
              !.pushed = IF mode = "ok" THEN Some("/owner/login") ELSE @,
              !.tasks[t] = Ends(@, None)]
    /\ UNCHANGED <<handler, register>>

-----------------------------------------------------------------------------
(* Owner dashboard: the service form *)

\* the strings typed into the price fields
PriceInputs == {"", "25", "25.5"}

\* a number that may be NaN, or an optional number: NaN and undefined are None
NaN == None
\* parseFloat and parseInt of the strings typed
parseFloat(text) ==
    CASE text = "25" -> Some(Number(25))
      [] text = "25.5" -> Some(Divide(51, 2))
      [] OTHER -> NaN
parseInt(text) == IF text = "3" THEN Some(3) ELSE NaN

\* convertNairaToKobo of @/lib/validations: the amount in kobo, rounded
convertNairaToKobo(naira) ==
    IF naira = NaN THEN NaN
    ELSE Some((2 * 100 * Get(naira).num + Get(naira).den) \div (2 * Get(naira).den))

\* (kobo / 100).toString()
NairaString(kobo) ==
    LET whole == ToString(kobo \div 100)
        cents == kobo % 100
    IN IF cents = 0 THEN whole
       ELSE IF cents % 10 = 0 THEN whole \o "." \o ToString(cents \div 10)
       ELSE IF cents < 10 THEN whole \o ".0" \o ToString(cents)
       ELSE whole \o "." \o ToString(cents)

\* the inputs of the service form and the values typed into each; the display
\* order has no input and comes from the service that is edited
ServiceFields == {"name", "basePrice", "pricePerKg", "isActive"}
ServiceFieldValues(name) ==
    CASE name = "name" -> {"", "Wash"}
      [] name \in {"basePrice", "pricePerKg"} -> PriceInputs
      [] name = "isActive" -> BOOLEAN

\* serviceData of handleCreateService (lines 442-458)
ServiceData(form) ==
    [name |-> form.name,
     basePrice |-> convertNairaToKobo(parseFloat(form.basePrice)),
     pricePerKg |-> IF form.pricePerKg # ""
                    THEN convertNairaToKobo(parseFloat(form.pricePerKg))
                    ELSE None,
     displayOrder |-> IF parseInt(form.displayOrder) = NaN THEN 0
                      ELSE Get(parseInt(form.displayOrder)),
     isActive |-> form.isActive,
     minOrderValue |-> 0,
     maxOrderValue |-> 10000000]

\* what a write of the store, registerAdmin or deleteAdminUser settles with
WriteResults ==
    [throws : {TRUE}, success : {FALSE}, error : {Undefined}]
    \cup [throws : {FALSE}, success : {TRUE}, error : {Undefined}]
    \cup [throws : {FALSE}, success : {FALSE}, error : {Undefined, "Not permitted"}]

\* an input of the service form changes (lines 1700-1879)
ServiceFieldChange ==
    /\ Rendered
    /\ dashboard.showCreateService
    /\ \E name \in ServiceFields : \E value \in ServiceFieldValues(name) :
         dashboard' = [dashboard EXCEPT !.serviceFormData[name] = value]
    /\ UNCHANGED <<handler, register>>

\* the button Add Service (line 1394)
ShowCreateService ==
    /\ Rendered
    /\ dashboard' = [dashboard EXCEPT !.showCreateService = TRUE]
    /\ UNCHANGED <<handler, register>>

\* handleEditService (lines 487-505) of a service of the list
HandleEditService ==
    /\ Rendered
    /\ \E i \in 1..Len(dashboard.services) :
         LET service == dashboard.services[i] IN
         dashboard' =
           [dashboard EXCEPT
              !.serviceFormData =
                 [name |-> service.name,
                  basePrice |-> NairaString(service.basePrice),
                  pricePerKg |-> IF service.pricePerKg \in {None, Some(0)} THEN ""
                                 ELSE NairaString(Get(service.pricePerKg)),
                  displayOrder |-> ToString(service.displayOrder),
                  isActive |-> service.isActive],
              !.editingService = Some(service),
              !.showCreateService = TRUE]
    /\ UNCHANGED <<handler, register>>

\* resetServiceForm (lines 417-435), from the buttons that close the form
ResetServiceForm ==
    /\ Rendered
    /\ dashboard.showCreateService
    /\ dashboard' = [dashboard EXCEPT !.serviceFormData = InitialServiceForm,
                                      !.editingService = None,
                                      !.showCreateService = FALSE]
    /\ UNCHANGED <<handler, register>>

\* the write of handleCreateService (lines 460-470)
ServiceWrite(d) ==
    IF d.editingService # None
    THEN Call("updateService",
              <<Get(d.editingService).id, ServiceData(d.serviceFormData)>>)
    ELSE Call("createService", <<ServiceData(d.serviceFormData)>>)

\* handleCreateService up to its first await (lines 437-470), from the form
\* that line 1663 shows
HandleCreateService ==
    /\ Rendered
    /\ dashboard.showCreateService
    /\ \E t \in Tasks :
         /\ Free(t)
         /\ dashboard' =
              [dashboard EXCEPT
                 !.isLoading = TRUE,
                 !.tasks[t] = [kind |-> "handleCreateService",
                               pc |-> ServiceWrite(dashboard).fn,
                               calls |-> <<ServiceWrite(dashboard)>>,
                               local |-> None]]
    /\ UNCHANGED <<handler, register>>

\* an outcome handling that resets the form whatever the write reported
ServiceWritten_AlwaysResets(d, t, result) ==
    [d EXCEPT !.tasks[t] = [Goes(@, "getActiveServices", Undefined)
                              EXCEPT !.local = Some(result)]]

\* handleCreateService after the write (lines 461-484): on success
\* loadServicesData up to its await, else the end of the handler
ServiceWritten(d, t, result) ==
    IF ~result.throws /\ result.success
    THEN [d EXCEPT !.tasks[t] = [Goes(@, "getActiveServices", Undefined)
                                   EXCEPT !.local = Some(result)]]
    ELSE [d EXCEPT !.isLoading = FALSE,
                   !.tasks[t] = Ends(@, Some(result))]

\* updateService or createService settles
ServiceWriteReturns(t) ==
    /\ t \in DOMAIN dashboard.tasks
    /\ dashboard.tasks[t].kind = "handleCreateService"
    /\ dashboard.tasks[t].pc \in {"updateService", "createService"}
    /\ \E result \in WriteResults : dashboard' = ServiceWritten(dashboard, t, result)
    /\ UNCHANGED <<handler, register>>

\* handleToggleServiceStatus (lines 507-510) of a service of the list, up to
\* its await
HandleToggleServiceStatus ==
    /\ Rendered
    /\ \E i \in 1..Len(dashboard.services) : \E t \in Tasks :
         /\ Free(t)
         /\ dashboard' =
              [dashboard EXCEPT
                 !.tasks[t] =
                    [kind |-> "handleToggleServiceStatus",
                     pc |-> "updateService",
                     calls |-> <<Call("updateService",
                                      <<dashboard.services[i].id,
                                        [isActive |-> ~dashboard.services[i].isActive]>>)>>,
                     local |-> None]]
    /\ UNCHANGED <<handler, register>>

\* handleToggleServiceStatus after updateService (lines 512-520): on success
\* loadServicesData up to its await, else the end of the handler
ToggleReturns(t) ==
    /\ t \in DOMAIN dashboard.tasks
    /\ dashboard.tasks[t].kind = "handleToggleServiceStatus"
    /\ dashboard.tasks[t].pc = "updateService"
    /\ \E result \in WriteResults :
         dashboard' =
           [dashboard EXCEPT
              !.tasks[t] = IF ~result.throws /\ result.success
                           THEN [Goes(@, "getActiveServices", Undefined)
                                   EXCEPT !.local = Some(result)]
                           ELSE Ends(@, Some(result))]
    /\ UNCHANGED <<handler, register>>

-----------------------------------------------------------------------------
(* Owner dashboard: staff *)

\* the inputs of the staff form that are typed into, and the values typed
\* into each; the other text inputs are carried as the first name is
StaffFieldValues(name) ==
    CASE name = "firstName" -> {"", "Bola"}
      [] name = "email" -> {"", "bola@example.com"}
      [] name = "role" -> {"STAFF", "ADMIN"}

\* the button Add Staff (line 985)
ShowCreateStaff ==
    /\ Rendered
    /\ dashboard' = [dashboard EXCEPT !.showCreateStaff = TRUE]
    /\ UNCHANGED <<handler, register>>

\* an input of the staff form changes (lines 1012-1097)
StaffFieldChange ==
    /\ Rendered
    /\ dashboard.showCreateStaff
    /\ \E name \in {"firstName", "email", "role"} :
         \E value \in StaffFieldValues(name) :
         dashboard' = [dashboard EXCEPT !.staffFormData[name] = value]
    /\ UNCHANGED <<handler, register>>

\* resetStaffForm (lines 524-543), from the button Cancel of the form
ResetStaffForm ==
    /\ Rendered
    /\ dashboard.showCreateStaff
    /\ dashboard' = [dashboard EXCEPT !.staffFormData = InitialStaffForm,
                                      !.showCreateStaff = FALSE]
    /\ UNCHANGED <<handler, register>>

\* staffData of handleCreateStaff (lines 550-563)
StaffData(form) ==
    [email |-> form.email, password |-> form.password, firstName |-> form.firstName,
     lastName |-> form.lastName, phone |-> form.phone, role |-> form.role,
     employeeId |-> form.employeeId]

\* handleCreateStaff up to its await (lines 545-565), from the form that
\* line 995 shows
HandleCreateStaff ==
    /\ Rendered
    /\ dashboard.showCreateStaff
    /\ \E t \in Tasks :
         /\ Free(t)
         /\ dashboard' =
              [dashboard EXCEPT
                 !.isLoading = TRUE,
                 !.tasks[t] = [kind |-> "handleCreateStaff",
                               pc |-> "registerAdmin",
                               calls |-> <<Call("registerAdmin",
                                                <<StaffData(dashboard.staffFormData)>>)>>,
                               local |-> None]]
    /\ UNCHANGED <<handler, register>>

\* loadStaffData up to its await, called without await: the function goes on
\* as loadStaffData
ReloadsStaff(task, result) ==
    [Goes(task, "getAllAdminUsers", Undefined)
       EXCEPT !.kind = "loadStaffData", !.local = Some(result)]

\* handleCreateStaff after registerAdmin (lines 567-579)
RegisterAdminReturns(t) ==
    /\ t \in DOMAIN dashboard.tasks
    /\ dashboard.tasks[t].kind = "handleCreateStaff"
    /\ dashboard.tasks[t].pc = "registerAdmin"
    /\ \E result \in WriteResults :
         IF ~result.throws /\ result.success
         THEN dashboard' =
                [dashboard EXCEPT !.staffFormData = InitialStaffForm,
                                  !.showCreateStaff = FALSE,
                                  !.isLoading = FALSE,
                                  !.tasks[t] = ReloadsStaff(@, result)]
         ELSE dashboard' =
                [dashboard EXCEPT
                   !.isLoading = FALSE,
                   !.tasks[t] = Ends(@, Some(result))]
    /\ UNCHANGED <<handler, register>>

\* confirmDeleteStaff (lines 610-613) of a member of the list
ConfirmDeleteStaff ==
    /\ Rendered
    /\ \E i \in 1..Len(dashboard.staff) :
         dashboard' = [dashboard EXCEPT !.staffToDelete = Some(dashboard.staff[i]),
                                        !.showDeleteConfirmation = TRUE]
    /\ UNCHANGED <<handler, register>>

\* cancelDeleteStaff (lines 615-618), from the dialog that line 2203 shows;
\* the button of its header is enabled also while a deletion runs
CancelDeleteStaff ==
    /\ Rendered
    /\ dashboard.showDeleteConfirmation /\ dashboard.staffToDelete # None
    /\ dashboard' = [dashboard EXCEPT !.showDeleteConfirmation = FALSE,
                                      !.staffToDelete = None]
    /\ UNCHANGED <<handler, register>>

\* a deletion that asks for the first member of the list
DeleteTarget_FirstOfList(d) == d.staff[1].id

\* the argument of deleteAdminUser (line 592)
DeleteTarget(d) == Get(d.staffToDelete).id

\* handleDeleteStaff up to its await (lines 587-592), run in slot t on the
\* page d: nothing without a selected member, else the call
DeleteRequested(d, t) ==
    IF d.staffToDelete = None
    THEN d
    ELSE [d EXCEPT
            !.isDeleting = TRUE,
            !.tasks[t] = [kind |-> "handleDeleteStaff",
                          pc |-> "deleteAdminUser",
                          calls |-> <<Call("deleteAdminUser", DeleteTarget(d))>>,
                          local |-> None]]

\* the button Delete of the dialog that line 2203 shows, disabled while a
\* deletion runs (line 2257)
HandleDeleteStaff ==
    /\ Rendered
    /\ dashboard.showDeleteConfirmation /\ dashboard.staffToDelete # None
    /\ ~dashboard.isDeleting
    /\ \E t \in Tasks :
         /\ Free(t)
         /\ dashboard' = DeleteRequested(dashboard, t)
    /\ UNCHANGED <<handler, register>>

\* an outcome handling that closes the dialog whatever deleteAdminUser reported
Deleted_AlwaysCloses(d, t, result) ==
    [d EXCEPT !.showDeleteConfirmation = FALSE,
              !.staffToDelete = None,
              !.isDeleting = FALSE,
              !.tasks[t] = Ends(@, Some(result))]

\* handleDeleteStaff after deleteAdminUser (lines 594-607)
Deleted(d, t, result) ==
    IF ~result.throws /\ result.success
    THEN [d EXCEPT !.showDeleteConfirmation = FALSE,
                   !.staffToDelete = None,
                   !.isDeleting = FALSE,
                   !.tasks[t] = ReloadsStaff(@, result)]
    ELSE [d EXCEPT !.isDeleting = FALSE,
                   !.tasks[t] = Ends(@, Some(result))]

\* deleteAdminUser settles
DeleteReturns(t) ==
    /\ t \in DOMAIN dashboard.tasks
    /\ dashboard.tasks[t].kind = "handleDeleteStaff"
    /\ dashboard.tasks[t].pc = "deleteAdminUser"
    /\ \E result \in WriteResults : dashboard' = Deleted(dashboard, t, result)
    /\ UNCHANGED <<handler, register>>

-----------------------------------------------------------------------------
(* Owner dashboard: specifications *)

\* the session of the owner
OwnerSession == [user |-> Some("user-1"), userRole |-> OWNER]

\* the members of the staff and the services that the store holds
StoredAdmins ==
    << [id |-> "A1", totalOrdersHandled |-> Some(12), averageRating |-> "4.9",
        isActive |-> TRUE],
       [id |-> "A2", totalOrdersHandled |-> None, averageRating |-> Undefined,
        isActive |-> FALSE] >>
StoredServices ==
    << [id |-> "S1", name |-> "Wash", basePrice |-> 2550, pricePerKg |-> None,
        displayOrder |-> 3, isActive |-> TRUE] >>

\* the stores of the customer statistics: two customers and up to two orders,
\* of either customer, amount and day
CustomerStores ==
    { [users |-> << [id |-> "U1"], [id |-> "U2"] >>,
       orders |-> os, admins |-> <<>>, services |-> <<>>] :
      os \in UNION { [1..n -> [id : {"O1"}, customerId : {"U1", "U2"},
                              status : {"DELIVERED"}, finalAmount : {1000, 2500},
                              createdAt : CreationDays]] : n \in 0..2 } }

\* the stores of the order statistics: up to MaxOrders orders whose statuses
\* and days of creation go round by steps
OrderStores ==
    { [users |-> << [id |-> "U1"] >>,
       orders |-> [i \in 1..n |->
                     [id |-> i,
                      customerId |-> "U1",
                      status |-> StatusQueries[((i * k + b) % 7) + 1],
                      finalAmount |-> 1000 * i,
                      createdAt |-> Today - ((i * j) % 32)]],
       admins |-> StoredAdmins, services |-> <<>>] :
      n \in 0..MaxOrders, k \in {0, 1}, b \in {0, 5}, j \in {1, 7} }

\* the store of the other specifications
SmallStore ==
    [users |-> << [id |-> "U1"] >>,
     orders |-> << [id |-> 1, customerId |-> "U1", status |-> "DELIVERED",
                    finalAmount |-> 1000, createdAt |-> Today] >>,
     admins |-> StoredAdmins, services |-> StoredServices]

\* the page is not mounted over the handler or beside the registration page
DashboardOnly == HandlerAbsent /\ register = None

CustomersInit ==
    /\ DashboardOnly
    /\ \E store \in CustomerStores : dashboard = Mounted(store, {OwnerSession}, {1})

OrdersInit ==
    /\ DashboardOnly
    /\ \E store \in OrderStores : dashboard = Mounted(store, {OwnerSession}, {1})

\* the effect and the steps of loadDashboardData
LoadNext ==
    \/ Effect
    \/ \E t \in Tasks :
         \/ UsersReturn(t)
         \/ CustomerOrdersReturn(t)
         \/ AdminUsersReturn(t)
         \/ TestOrdersReturn(t)
         \/ StatusOrdersReturn(t)
         \/ ServicesReturn(t)

SpecCustomers == CustomersInit /\ [][LoadNext]_vars

SpecOrders == OrdersInit /\ [][LoadNext]_vars

\* the access gate: useAuth gives any of the sessions, in any order
GateInit ==
    /\ DashboardOnly
    /\ dashboard = Mounted(SmallStore, Sessions, {1})

\* the effect, the loads and the logout
GateNext ==
    \/ LoadNext
    \/ HandleLogout
    \/ \E t \in Tasks : LogoutReturns(t)

SpecGate == GateInit /\ [][GateNext]_vars

\* the owner's page, on which two async functions may run at a time
OwnerInit ==
    /\ DashboardOnly
    /\ dashboard = Mounted(SmallStore, {OwnerSession}, Tasks)

\* the creation and the deletion of a member of the staff
StaffNext ==
    \/ LoadNext
    \/ ShowCreateStaff
    \/ StaffFieldChange
    \/ ResetStaffForm
    \/ HandleCreateStaff
    \/ ConfirmDeleteStaff
    \/ CancelDeleteStaff
    \/ HandleDeleteStaff
    \/ \E t \in Tasks :
         \/ RegisterAdminReturns(t)
         \/ DeleteReturns(t)

SpecStaff == OwnerInit /\ [][StaffNext]_vars

\* the form of a service
ServiceNext ==
    \/ LoadNext
    \/ ServiceFieldChange
    \/ ShowCreateService
    \/ HandleEditService
    \/ ResetServiceForm
    \/ HandleCreateService
    \/ HandleToggleServiceStatus
    \/ \E t \in Tasks :
         \/ ServiceWriteReturns(t)
         \/ ToggleReturns(t)

SpecService == OwnerInit /\ [][ServiceNext]_vars

\* the session of a user whose role useAuth has not given yet
RolePending == [user |-> Some("user-1"), userRole |-> Undefined]

\* the loads and the saves that set isLoading, while the role of the user
\* comes and goes, over a store that holds nothing yet or one customer only
LoadingInit ==
    /\ DashboardOnly
    /\ \E users \in {<<>>, << [id |-> "U1"] >>} :
         dashboard = Mounted([users |-> users, orders |-> <<>>, admins |-> <<>>,
                              services |-> <<>>],
                             {OwnerSession, RolePending}, Tasks)

LoadingNext ==
    \/ LoadNext
    \/ ShowCreateService
    \/ HandleCreateService
    \/ ShowCreateStaff
    \/ HandleCreateStaff
    \/ \E t \in Tasks :
         \/ ServiceWriteReturns(t)
         \/ RegisterAdminReturns(t)

SpecLoading == LoadingInit /\ [][LoadingNext]_vars

-----------------------------------------------------------------------------
(* Owner dashboard: claims *)

\* loadCustomersData of task t has just ended after the order lookups of the
\* customers, none of which was rejected
CustomersLoaded(t) ==
    /\ dashboard.tasks[t].kind = "loadDashboardData"
    /\ dashboard.tasks[t].pc = "getAllAdminUsers"
    /\ dashboard.tasks[t].local # None
    /\ \A i \in DOMAIN Get(dashboard.tasks[t].local).answers :
         ~Get(dashboard.tasks[t].local).answers[i].throws

\* the orders that an answer of the store returned
Returned(r) == IF r.success /\ r.data # None THEN Get(r.data) ELSE <<>>

(* C21: when loadCustomersData has set the customers, the list has one      *)
(* entry for each customer the store returned, in which totalOrders is the  *)
(* number of orders returned for the customer, totalSpent the sum of their  *)
(* finalAmount, lastOrderDate the greatest of their creation days and       *)
(* status 'active' exactly when that day is less than 30 days back; a       *)
(* customer with no orders or with a failed lookup has 0 orders, 0 spent    *)
(* and status 'inactive'; and stats.activeCustomers is the number of        *)
(* entries with status 'active'.                                            *)
C21_CustomerStatistics ==
    \A t \in DOMAIN dashboard.tasks :
        CustomersLoaded(t) =>
            LET users == Get(dashboard.tasks[t].local).users
                answers == Get(dashboard.tasks[t].local).answers
            IN /\ Len(dashboard.customers) = Len(users)
               /\ \A i \in 1..Len(users) :
                    LET c == dashboard.customers[i]
                        returned == Returned(answers[i])
                    IN /\ c.id = users[i].id
                       /\ c.totalOrders = Len(returned)
                       /\ c.totalSpent = SumAmounts(returned)
                       /\ returned = <<>> =>
                            /\ c.totalOrders = 0 /\ c.totalSpent = 0
                            /\ c.lastOrderDate = None
                            /\ c.status = "inactive"
                       /\ returned # <<>> =>
                            /\ c.lastOrderDate # None
                            /\ \E j \in 1..Len(returned) :
                                 returned[j].createdAt = Get(c.lastOrderDate)
                            /\ \A j \in 1..Len(returned) :
                                 returned[j].createdAt <= Get(c.lastOrderDate)
                            /\ c.status = IF Today - Get(c.lastOrderDate) < 30
                                          THEN "active" ELSE "inactive"
               /\ dashboard.stats.activeCustomers =
                    Cardinality({i \in 1..Len(dashboard.customers) :
                                   dashboard.customers[i].status = "active"})

\* customer U1 has two orders, the older one returned last, and is active by
\* the later one; the lookup of U2 failed; one customer is counted active
C21_Witness ==
    \E t \in DOMAIN dashboard.tasks :
        /\ CustomersLoaded(t)
        /\ Len(dashboard.customers) = 2
        /\ dashboard.customers[1].totalOrders = 2
        /\ dashboard.customers[1].totalSpent = 3500
        /\ dashboard.customers[1].lastOrderDate = Some(Today)
        /\ dashboard.store.orders[2].createdAt = Today - 30
        /\ dashboard.customers[1].status = "active"
        /\ ~Get(dashboard.tasks[t].local).answers[2].success
        /\ dashboard.customers[2].totalOrders = 0
        /\ dashboard.customers[2].status = "inactive"
        /\ dashboard.stats.activeCustomers = 1

\* loadOrdersData of task t has just ended after the seven status queries
OrdersQueried(t) ==
    /\ dashboard.tasks[t].kind = "loadDashboardData"
    /\ dashboard.tasks[t].pc = "getActiveServices"
    /\ dashboard.tasks[t].local # None
StatusAnswers(t) == Get(dashboard.tasks[t].local).answers
OrdersLoaded(t) ==
    /\ OrdersQueried(t)
    /\ \A i \in DOMAIN StatusAnswers(t) : ~StatusAnswers(t)[i].throws

\* the orders fetched over the seven statuses
Fetched(t) ==
    UNION { {Returned(StatusAnswers(t)[i])[j] : j \in 1..Len(Returned(StatusAnswers(t)[i]))} :
            i \in DOMAIN StatusAnswers(t) }

\* the sum of finalAmount over a set of orders
RECURSIVE Revenue(_)
Revenue(set) ==
    IF set = {} THEN 0
    ELSE LET o == CHOOSE x \in set : TRUE IN o.finalAmount + Revenue(set \ {o})

(* C25: after loadOrdersData has fetched the orders of the seven statuses,  *)
(* totalOrders is the number of orders fetched, completedOrders the number  *)
(* of DELIVERED and pendingOrders the number of PENDING ones, totalRevenue  *)
(* the sum of finalAmount over the DELIVERED ones, averageOrderValue the    *)
(* quotient of totalRevenue by totalOrders, and 0 when totalOrders is 0,    *)
(* and recentOrders the 10 most recently created orders, or all of them     *)
(* when they are fewer, the most recent first.                              *)
C25_OrderStatistics ==
    \A t \in DOMAIN dashboard.tasks :
        OrdersLoaded(t) =>
            LET fetched == Fetched(t)
                delivered == {o \in fetched : o.status = "DELIVERED"}
                stats == dashboard.stats
                recent == dashboard.recentOrders
            IN /\ stats.totalOrders = Cardinality(fetched)
               /\ stats.completedOrders = Cardinality(delivered)
               /\ stats.pendingOrders =
                    Cardinality({o \in fetched : o.status = "PENDING"})
               /\ stats.totalRevenue = Revenue(delivered)
               /\ stats.totalOrders = 0 => stats.averageOrderValue = [num |-> 0, den |-> 1]
               /\ stats.totalOrders > 0 =>
                    stats.averageOrderValue.num * stats.totalOrders
                      = stats.totalRevenue * stats.averageOrderValue.den
               /\ Len(recent) <= 10
               /\ Len(recent) = IF Cardinality(fetched) < 10 THEN Cardinality(fetched)
                                ELSE 10
               /\ \A i \in 1..Len(recent) : recent[i] \in fetched
               /\ \A i, j \in 1..Len(recent) :
                    i < j => /\ recent[i].createdAt >= recent[j].createdAt
                             /\ recent[i] # recent[j]
               /\ \A o \in fetched :
                    (\A i \in 1..Len(recent) : recent[i] # o) =>
                        \A i \in 1..Len(recent) : recent[i].createdAt >= o.createdAt

\* eleven orders were fetched, some DELIVERED and some PENDING: ten are
\* shown, the average is not a whole number and an older order is left out
C25_Witness ==
    \E t \in DOMAIN dashboard.tasks :
        /\ OrdersLoaded(t)
        /\ Cardinality(Fetched(t)) = 11
        /\ dashboard.stats.totalOrders = 11
        /\ dashboard.stats.completedOrders >= 1
        /\ dashboard.stats.pendingOrders >= 1
        /\ dashboard.stats.totalRevenue > 0
        /\ dashboard.stats.averageOrderValue.den > 1
        /\ Len(dashboard.recentOrders) = 10
        /\ dashboard.recentOrders[1].createdAt > dashboard.recentOrders[10].createdAt

\* the statuses whose query reported a failure or returned no data
Skipped(t) ==
    {StatusQueries[i] : i \in {k \in DOMAIN StatusAnswers(t) :
                                 ~HasData(StatusAnswers(t)[k])}}

(* C26: a step of loadOrdersData in which a query throws empties           *)
(* recentOrders and sets totalOrders, pendingOrders, completedOrders,       *)
(* totalRevenue, monthlyRevenue and averageOrderValue to 0, and leaves      *)
(* activeCustomers, totalStaff, activeStaff and customerSatisfaction as     *)
(* they were; and when no query throws but one reports a failure, the       *)
(* statistics count the stored orders of the other statuses only.           *)
C26_OrderLoadFailure ==
    [][\A t \in DOMAIN dashboard.tasks :
         /\ (/\ dashboard.tasks[t].pc \in {"testOrders", "getOrdersByStatus"}
             /\ dashboard'.tasks[t].pc = "getActiveServices"
             /\ \/ dashboard.tasks[t].pc = "testOrders"
                \/ \E i \in 1..7 : Get(dashboard'.tasks[t].local).answers[i].throws)
            => /\ dashboard'.recentOrders = <<>>
               /\ dashboard'.stats.totalOrders = 0
               /\ dashboard'.stats.pendingOrders = 0
               /\ dashboard'.stats.completedOrders = 0
               /\ dashboard'.stats.totalRevenue = 0
               /\ dashboard'.stats.monthlyRevenue = 0
               /\ dashboard'.stats.averageOrderValue = [num |-> 0, den |-> 1]
               /\ dashboard'.stats.activeCustomers = dashboard.stats.activeCustomers
               /\ dashboard'.stats.totalStaff = dashboard.stats.totalStaff
               /\ dashboard'.stats.activeStaff = dashboard.stats.activeStaff
               /\ dashboard'.stats.customerSatisfaction
                    = dashboard.stats.customerSatisfaction
         /\ (/\ dashboard.tasks[t].pc = "getOrdersByStatus"
             /\ dashboard'.tasks[t].pc = "getActiveServices"
             /\ \A i \in 1..7 : ~Get(dashboard'.tasks[t].local).answers[i].throws)
            => LET skipped == {StatusQueries[i] :
                                 i \in {k \in 1..7 :
                                   LET r == Get(dashboard'.tasks[t].local).answers[k]
                                   IN ~r.success \/ r.data = None}}
                   counted == {i \in 1..Len(dashboard.store.orders) :
                                 dashboard.store.orders[i].status \notin skipped}
               IN /\ dashboard'.stats.totalOrders = Cardinality(counted)
                  /\ dashboard'.stats.completedOrders =
                       Cardinality({i \in counted :
                                      dashboard.store.orders[i].status = "DELIVERED"})
                  /\ dashboard'.stats.pendingOrders =
                       Cardinality({i \in counted :
                                      dashboard.store.orders[i].status = "PENDING"})
                  /\ Len(dashboard'.recentOrders) =
                       IF Cardinality(counted) < 10 THEN Cardinality(counted) ELSE 10
      ]_vars

\* a status query threw after the load had counted the staff and the active
\* customers: the order statistics are 0 and the others are still there
C26_Witness ==
    \E t \in DOMAIN dashboard.tasks :
        /\ OrdersQueried(t)
        /\ \E i \in 1..7 : StatusAnswers(t)[i].throws
        /\ Len(dashboard.store.orders) > 0
        /\ dashboard.recentOrders = <<>>
        /\ dashboard.stats.totalOrders = 0
        /\ dashboard.stats.totalRevenue = 0
        /\ dashboard.stats.activeCustomers = 1
        /\ dashboard.stats.totalStaff = 2
        /\ dashboard.stats.activeStaff = 1

\* the DELIVERED query reported a failure and did not throw: the delivered
\* orders of the store are not counted, the others are
C26_Witness_Skipped ==
    \E t \in DOMAIN dashboard.tasks :
        /\ OrdersLoaded(t)
        /\ Skipped(t) = {"DELIVERED"}
        /\ \E i \in 1..Len(dashboard.store.orders) :
             dashboard.store.orders[i].status = "DELIVERED"
        /\ dashboard.stats.completedOrders = 0
        /\ dashboard.stats.totalRevenue = 0
        /\ dashboard.stats.totalOrders > 0

\* task t starts loadDashboardData in this step
LoadStarts(t) ==
    /\ dashboard'.tasks[t] # dashboard.tasks[t]
    /\ dashboard'.tasks[t].kind = "loadDashboardData"
    /\ dashboard'.tasks[t].pc = "getAllUsers"

\* the calls that the async functions of the page have made
CallsMade(d) == [t \in DOMAIN d.tasks |-> d.tasks[t].calls]

(* C24: loadDashboardData starts only in a run of the effect in which a     *)
(* user is present and the role is OWNER; a run of the effect with no user  *)
(* pushes '/owner/login', and one with a user whose role is missing or is   *)
(* not OWNER pushes '/login', and neither starts a load or makes a call.    *)
C24_AccessGate ==
    [][/\ \A t \in DOMAIN dashboard.tasks :
            LoadStarts(t) => /\ dashboard'.user # None
                             /\ dashboard'.userRole = "OWNER"
                             /\ dashboard'.pushed = dashboard.pushed
       /\ (Effect /\ dashboard'.user = None)
            => /\ dashboard'.pushed = Some("/owner/login")
               /\ CallsMade(dashboard') = CallsMade(dashboard)
               /\ dashboard'.tasks = dashboard.tasks
       /\ (Effect /\ dashboard'.user # None /\ dashboard'.userRole # "OWNER")
            => /\ dashboard'.pushed = Some("/login")
               /\ CallsMade(dashboard') = CallsMade(dashboard)
               /\ dashboard'.tasks = dashboard.tasks
      ]_vars

\* a member of the staff was sent to '/login' with nothing loaded, and no
\* call was ever made
C24_Witness ==
    /\ dashboard.user # None
    /\ dashboard.userRole = "STAFF"
    /\ dashboard.pushed = Some("/login")
    /\ \A t \in DOMAIN dashboard.tasks : dashboard.tasks[t] = Idle
    /\ dashboard.customers = <<>> /\ dashboard.staff = <<>>
    /\ dashboard.recentOrders = <<>> /\ dashboard.services = <<>>

\* the owner's data is loaded: customers, staff, orders and services
C24_Witness_Owner ==
    /\ dashboard.user # None
    /\ dashboard.userRole = "OWNER"
    /\ dashboard.pushed = None
    /\ Len(dashboard.customers) = 1 /\ Len(dashboard.staff) = 2
    /\ Len(dashboard.recentOrders) = 1 /\ Len(dashboard.services) = 1

\* task t calls deleteAdminUser in this step
DeleteCalled(t) ==
    /\ dashboard'.tasks[t].calls # dashboard.tasks[t].calls
    /\ dashboard'.tasks[t].calls # <<>>
    /\ dashboard'.tasks[t].calls[Len(dashboard'.tasks[t].calls)].fn = "deleteAdminUser"

(* C27: deleteAdminUser is called only in a step of handleDeleteStaff,      *)
(* taken while a member is selected, and with the id of that member; a      *)
(* member becomes selected only by confirmDeleteStaff, as one of the staff  *)
(* list; and handleDeleteStaff, run on a page with no member selected,      *)
(* makes no call and leaves the state of the page as it is, and no step     *)
(* taken from such a page calls deleteAdminUser.                            *)
C27_DeletionProtocol ==
    [][/\ \A t \in DOMAIN dashboard.tasks :
            DeleteCalled(t) =>
                /\ HandleDeleteStaff
                /\ dashboard.staffToDelete # None
                /\ dashboard'.tasks[t].calls =
                     << [fn |-> "deleteAdminUser",
                         arg |-> dashboard.staffToDelete[1].id] >>
       /\ (dashboard'.staffToDelete # dashboard.staffToDelete
            /\ dashboard'.staffToDelete # None)
            => /\ ConfirmDeleteStaff
               /\ \E i \in 1..Len(dashboard.staff) :
                    dashboard'.staffToDelete = <<dashboard.staff[i]>>
       /\ dashboard.staffToDelete = None
            => /\ \A t \in DOMAIN dashboard.tasks :
                    DeleteRequested(dashboard, t) = dashboard
               /\ \A t \in DOMAIN dashboard.tasks : ~DeleteCalled(t)
      ]_vars

\* the second member of the list is selected and its deletion is in flight,
\* asked for by the id of that member
C27_Witness ==
    \E t \in DOMAIN dashboard.tasks :
        /\ dashboard.tasks[t].kind = "handleDeleteStaff"
        /\ dashboard.tasks[t].pc = "deleteAdminUser"
        /\ dashboard.staffToDelete # None
        /\ dashboard.staffToDelete[1].id = "A2"
        /\ dashboard.staff[1].id = "A1"
        /\ dashboard.tasks[t].calls = << [fn |-> "deleteAdminUser", arg |-> "A2"] >>
        /\ dashboard.isDeleting

\* deleteAdminUser of task t settles in this step
DeleteSettles(t) ==
    /\ dashboard.tasks[t].kind = "handleDeleteStaff"
    /\ dashboard.tasks[t].pc = "deleteAdminUser"
    /\ dashboard'.tasks[t].pc # "deleteAdminUser"

\* what a write settled with is a success
Succeeded(result) == ~result.throws /\ result.success

(* C28: when deleteAdminUser reports a failure or throws, the step of       *)
(* handleDeleteStaff that follows leaves showDeleteConfirmation and         *)
(* staffToDelete as they were and does not call getAllAdminUsers; when it   *)
(* reports success the step closes the dialog, clears the selection and     *)
(* calls getAllAdminUsers; in each case isDeleting is false after the step. *)
C28_DeletionOutcome ==
    [][\A t \in DOMAIN dashboard.tasks :
         DeleteSettles(t) =>
            LET result == dashboard'.tasks[t].local[1] IN
            /\ dashboard'.isDeleting = FALSE
            /\ ~Succeeded(result) =>
                 /\ dashboard'.showDeleteConfirmation = dashboard.showDeleteConfirmation
                 /\ dashboard'.staffToDelete = dashboard.staffToDelete
                 /\ dashboard'.staff = dashboard.staff
                 /\ dashboard'.tasks[t].pc = "done"
                 /\ dashboard'.tasks[t].kind = "handleDeleteStaff"
            /\ Succeeded(result) =>
                 /\ dashboard'.showDeleteConfirmation = FALSE
                 /\ dashboard'.staffToDelete = None
                 /\ dashboard'.tasks[t].kind = "loadStaffData"
                 /\ dashboard'.tasks[t].pc = "getAllAdminUsers"
                 /\ dashboard'.tasks[t].calls =
                      Append(dashboard.tasks[t].calls,
                             [fn |-> "getAllAdminUsers", arg |-> Undefined])
      ]_vars

\* the deletion has failed: the dialog is still open on the member and the
\* handler has completed with isDeleting false and nothing reloaded
C28_Witness ==
    \E t \in DOMAIN dashboard.tasks :
        /\ dashboard.tasks[t].kind = "handleDeleteStaff"
        /\ dashboard.tasks[t].pc = "done"
        /\ ~Succeeded(dashboard.tasks[t].local[1])
        /\ dashboard.showDeleteConfirmation
        /\ dashboard.staffToDelete # None
        /\ ~dashboard.isDeleting
        /\ \A u \in DOMAIN dashboard.tasks : dashboard.tasks[u].pc = "done"

\* the deletion has succeeded: the dialog is closed, the selection cleared
\* and the staff list is being reloaded
C28_Witness_Success ==
    \E t \in DOMAIN dashboard.tasks :
        /\ dashboard.tasks[t].kind = "loadStaffData"
        /\ dashboard.tasks[t].pc = "getAllAdminUsers"
        /\ dashboard.tasks[t].calls[1].fn = "deleteAdminUser"
        /\ ~dashboard.showDeleteConfirmation
        /\ dashboard.staffToDelete = None
        /\ ~dashboard.isDeleting

\* the store writes of a service
ServiceWrites == {"updateService", "createService"}

\* the number of store writes among the calls of a task
Writes(task) ==
    Cardinality({i \in 1..Len(task.calls) : task.calls[i].fn \in ServiceWrites})

(* C29: a submit of the service form makes one store write, updateService   *)
(* with the id of editingService when a service is being edited and         *)
(* createService otherwise, and no other write while it runs; when the      *)
(* write reports success the service list is reloaded and then the form is  *)
(* reset (fields as at first, editingService null, form hidden); when the   *)
(* write reports a failure or throws, the handler ends with nothing         *)
(* reloaded and the form data, editingService and the form's being shown    *)
(* as they were.                                                            *)
C29_ServiceSubmit ==
    [][\A t \in DOMAIN dashboard.tasks :
         LET before == dashboard.tasks[t]
             after == dashboard'.tasks[t]
         IN /\ (after.kind = "handleCreateService" /\ after.pc # "done")
                 => Writes(after) = 1
            /\ (before.pc = "done" /\ after.kind = "handleCreateService"
                  /\ after.pc # "done")
                 => /\ Len(after.calls) = 1
                    /\ after.pc = after.calls[1].fn
                    /\ IF dashboard.editingService # None
                       THEN /\ after.calls[1].fn = "updateService"
                            /\ after.calls[1].arg[1] = dashboard.editingService[1].id
                       ELSE after.calls[1].fn = "createService"
                    /\ dashboard'.serviceFormData = dashboard.serviceFormData
                    /\ dashboard'.editingService = dashboard.editingService
            /\ (before.kind = "handleCreateService" /\ before.pc \in ServiceWrites
                  /\ after.pc # before.pc)
                 => /\ dashboard'.serviceFormData = dashboard.serviceFormData
                    /\ dashboard'.editingService = dashboard.editingService
                    /\ dashboard'.showCreateService = dashboard.showCreateService
                    /\ dashboard'.services = dashboard.services
                    /\ IF Succeeded(after.local[1])
                       THEN /\ after.pc = "getActiveServices"
                            /\ after.calls =
                                 Append(before.calls,
                                        [fn |-> "getActiveServices", arg |-> Undefined])
                       ELSE after.pc = "done"
            /\ (before.kind = "handleCreateService" /\ before.pc = "getActiveServices"
                  /\ after.pc # before.pc)
                 => /\ Succeeded(before.local[1])
                    /\ after.pc = "done"
                    /\ dashboard'.serviceFormData =
                         [name |-> "", basePrice |-> "", pricePerKg |-> "",
                          displayOrder |-> "", isActive |-> TRUE]
                    /\ dashboard'.editingService = None
                    /\ dashboard'.showCreateService = FALSE
      ]_vars

\* the update of the service S1 has failed: the handler has ended and the
\* form still shows what was typed for that service
C29_Witness ==
    \E t \in DOMAIN dashboard.tasks :
        /\ dashboard.tasks[t].kind = "handleCreateService"
        /\ dashboard.tasks[t].pc = "done"
        /\ dashboard.tasks[t].local # None
        /\ ~Succeeded(dashboard.tasks[t].local[1])
        /\ dashboard.editingService # None
        /\ dashboard.editingService[1].id = "S1"
        /\ dashboard.serviceFormData.basePrice = "25.5"
        /\ dashboard.serviceFormData.name = "Wash"
        /\ dashboard.showCreateService
        /\ ~dashboard.isLoading

\* the update of the service S1 is in flight, with the price typed in kobo
C29_Witness_Update ==
    \E t \in DOMAIN dashboard.tasks :
        /\ dashboard.tasks[t].kind = "handleCreateService"
        /\ dashboard.tasks[t].pc = "updateService"
        /\ dashboard.editingService # None
        /\ Len(dashboard.tasks[t].calls) = 1
        /\ dashboard.tasks[t].calls[1].arg[1] = "S1"
        /\ dashboard.tasks[t].calls[1].arg[2].basePrice = <<2500>>
        /\ dashboard.isLoading

\* the service was created and the list reloaded: the form is as at first
C29_Witness_Created ==
    \E t \in DOMAIN dashboard.tasks :
        /\ dashboard.tasks[t].kind = "handleCreateService"
        /\ dashboard.tasks[t].pc = "done"
        /\ dashboard.tasks[t].local = None
        /\ dashboard.serviceFormData.name = ""
        /\ dashboard.editingService = None
        /\ ~dashboard.showCreateService
        /\ ~dashboard.isLoading

\* the async functions that set isLoading
SetsLoading == {"loadDashboardData", "handleCreateService", "handleCreateStaff"}

\* one of them runs in slot t and has not completed
InFlight(t) ==
    /\ dashboard.tasks[t].kind \in SetsLoading
    /\ dashboard.tasks[t].pc # "done"

(* C30: isLoading is true whenever loadDashboardData, handleCreateService   *)
(* or handleCreateStaff is in flight, also when two of them overlap.        *)
C30_LoadingWhileInFlight ==
    \A t \in DOMAIN dashboard.tasks : InFlight(t) => dashboard.isLoading

\* C30, second half: once every one of them has completed, isLoading is false
C30_SettledMeansNotLoading ==
    (/\ \E t \in DOMAIN dashboard.tasks : dashboard.tasks[t].kind # "idle"
     /\ \A t \in DOMAIN dashboard.tasks : ~InFlight(t))
        => ~dashboard.isLoading

\* a load and a save overlap
C30_Overlap ==
    /\ InFlight(1) /\ InFlight(2)
    /\ dashboard.tasks[1].kind # dashboard.tasks[2].kind

====
